---- MODULE Spec2Model ----
(***************************************************************************)
(* A model of DungeonDB's storage core: the copy-on-write B+tree of        *)
(* internal/storage/btree.go working on raw page bytes, driven through the *)
(* page table of the integration harness, and the paged key-value store of *)
(* internal/storage/kv.go with its commit protocol.                        *)
(*                                                                         *)
(* Pages are modelled byte for byte.  A Go slice is a record               *)
(*     [Data |-> the bytes up to the slice's capacity, len |-> its length] *)
(* Go index i is Data[i+1].  uint16 arithmetic wraps modulo 65536.  Every  *)
(* accessor X has a companion XOk that is FALSE exactly when the Go code   *)
(* would panic (failed u.Assert, index or slice bound out of range).       *)
(***************************************************************************)
EXTENDS Integers, Sequences, FiniteSets, TLC

BNODE_NODE == 1
BNODE_LEAF == 2
HEADER == 4
BTREE_PAGE_SIZE == 4096
BTREE_MAX_KEY_SIZE == 1000
BTREE_MAX_VAL_SIZE == 3000

----------------------------------------------------------------------------
(* Bytes, little-endian integers, Go's copy().                              *)

Min(a, b) == IF a <= b THEN a ELSE b
Max(a, b) == IF a >= b THEN a ELSE b
u16(x) == x % 65536

Zeros(n) == [i \in 1..n |-> 0]
Fill(n, b) == [i \in 1..n |-> b]

\* d[i] for a 0-based index; 0 where the Go code would have panicked.
ByteAt(d, i) == IF i >= 0 /\ i < Len(d) THEN d[i + 1] ELSE 0

\* binary.LittleEndian.Uint16(d[pos:])
LE16(d, pos) == ByteAt(d, pos) + 256 * ByteAt(d, pos + 1)

\* The value 2^31-1 stands for every uint64 that does not fit 31 bits.
Huge == 2147483647

\* binary.LittleEndian.Uint64(d[pos:])
LE64(d, pos) ==
    IF \A k \in 4..7 : ByteAt(d, pos + k) = 0 /\ ByteAt(d, pos + 3) < 128
    THEN ByteAt(d, pos) + 256 * ByteAt(d, pos + 1) + 65536 * ByteAt(d, pos + 2)
         + 16777216 * ByteAt(d, pos + 3)
    ELSE Huge

\* The 8 bytes binary.LittleEndian.PutUint64 writes for v < 2^31.
Bytes64(v) ==
    << v % 256, (v \div 256) % 256, (v \div 65536) % 256, (v \div 16777216) % 256,
       0, 0, 0, 0 >>

Bytes16(v) == << v % 256, (v \div 256) % 256 >>

\* copy(d[pos:], src): copies min(len(d)-pos, len(src)) bytes.
Copy(d, pos, src) ==
    LET n == Min(Len(d) - pos, Len(src))
    IN  IF n <= 0 THEN d
        ELSE SubSeq(d, 1, pos) \o SubSeq(src, 1, n) \o SubSeq(d, pos + n + 1, Len(d))

\* bytes.Compare(a, b): -1, 0, +1
Compare(a, b) ==
    LET m == Min(Len(a), Len(b))
        diff == {i \in 1..m : a[i] # b[i]}
    IN  IF diff = {}
        THEN (IF Len(a) < Len(b) THEN -1 ELSE IF Len(a) > Len(b) THEN 1 ELSE 0)
        ELSE LET i == CHOOSE j \in diff : \A k \in diff : j <= k
             IN  IF a[i] < b[i] THEN -1 ELSE 1

\* The state keeps every page run-length encoded, as the sequence of
\* << byte, count >> runs of its bytes; the operations work on the bytes.
RECURSIVE RunsFrom(_, _, _)
RunsFrom(d, starts, i) ==
    IF i > Len(d) THEN << >>
    ELSE LET later == {j \in starts : j > i}
             e == IF later = {} THEN Len(d) + 1
                  ELSE CHOOSE j \in later : \A k \in later : j <= k
         IN  << << d[i], e - i >> >> \o RunsFrom(d, starts, e)

PackBytes(d) == RunsFrom(d, {i \in 2..Len(d) : d[i] # d[i - 1]}, 1)

RECURSIVE UnpackBytes(_)
UnpackBytes(runs) ==
    IF runs = << >> THEN << >>
    ELSE Fill(runs[1][2], runs[1][1]) \o UnpackBytes(Tail(runs))

Pack(node) == [runs |-> PackBytes(node.Data), len |-> node.len]
Unpack(page) == [Data |-> UnpackBytes(page.runs), len |-> page.len]

----------------------------------------------------------------------------
(* BNode: header, pointers, offsets, key-values (btree.go:100-169).         *)

\* BNode{Data: make([]byte, n)}
MakeNode(n) == [Data |-> Zeros(n), len |-> n]
\* BNode{}
EmptyNode == [Data |-> << >>, len |-> 0]

Btype(node) == LE16(node.Data, 0)
Nkeys(node) == LE16(node.Data, 2)

SetHeader(node, btype, nkeys) ==
    [node EXCEPT !.Data = Copy(@, 0, Bytes16(btype) \o Bytes16(nkeys))]

GetPtrOk(node, idx) ==
    idx < Nkeys(node) /\ u16(HEADER + 8 * idx) + 8 <= node.len
GetPtr(node, idx) == LE64(node.Data, u16(HEADER + 8 * idx))

SetPtr(node, idx, val) ==
    [node EXCEPT !.Data = Copy(@, u16(HEADER + 8 * idx), Bytes64(val))]

OffsetPos(node, idx) == u16(HEADER + 8 * Nkeys(node) + 2 * (idx - 1))

GetOffsetOk(node, idx) ==
    idx = 0 \/ (1 <= idx /\ idx <= Nkeys(node) /\ OffsetPos(node, idx) + 2 <= node.len)
GetOffset(node, idx) ==
    IF idx = 0 THEN 0 ELSE LE16(node.Data, OffsetPos(node, idx))

SetOffset(node, idx, offset) ==
    [node EXCEPT !.Data = Copy(@, OffsetPos(node, idx), Bytes16(u16(offset)))]

KvPosOk(node, idx) == idx <= Nkeys(node) /\ GetOffsetOk(node, idx)
KvPos(node, idx) ==
    u16(HEADER + 8 * Nkeys(node) + 2 * Nkeys(node) + GetOffset(node, idx))

\* node.Data[pos+4:][:klen] needs pos+4 <= len and klen <= cap - (pos+4).
GetKeyOk(node, idx) ==
    LET At(pos) ==
            /\ pos + 2 <= node.len
            /\ u16(pos + 4) <= node.len
            /\ LE16(node.Data, pos) <= Len(node.Data) - u16(pos + 4)
    IN  idx < Nkeys(node) /\ KvPosOk(node, idx) /\ At(KvPos(node, idx))
GetKey(node, idx) ==
    LET At(pos) ==
            SubSeq(node.Data, u16(pos + 4) + 1, u16(pos + 4) + LE16(node.Data, pos))
    IN  At(KvPos(node, idx))

GetValOk(node, idx) ==
    LET At(pos, klen) ==
            /\ pos + 2 <= node.len
            /\ u16(pos + 2) + 2 <= node.len
            /\ u16(pos + 4 + klen) <= node.len
            /\ LE16(node.Data, u16(pos + 2)) <= Len(node.Data) - u16(pos + 4 + klen)
        Pos(pos) == At(pos, LE16(node.Data, pos))
    IN  idx < Nkeys(node) /\ KvPosOk(node, idx) /\ Pos(KvPos(node, idx))
GetVal(node, idx) ==
    LET At(pos, klen) ==
            SubSeq(node.Data, u16(pos + 4 + klen) + 1,
                   u16(pos + 4 + klen) + LE16(node.Data, u16(pos + 2)))
        Pos(pos) == At(pos, LE16(node.Data, pos))
    IN  Pos(KvPos(node, idx))

NbytesOk(node) == KvPosOk(node, Nkeys(node))
Nbytes(node) == KvPos(node, Nkeys(node))

----------------------------------------------------------------------------
(* Lookup inside a node (btree.go:171-188).                                 *)

RECURSIVE LookupLoop(_, _, _, _)
LookupLoop(node, key, i, found) ==
    LET On(cmp) ==
            IF cmp >= 0 THEN (IF cmp <= 0 THEN i ELSE found)
            ELSE LookupLoop(node, key, i + 1, i)
    IN  IF i >= Nkeys(node) THEN found
        ELSE On(Compare(GetKey(node, i), key))

RECURSIVE LookupLoopOk(_, _, _)
LookupLoopOk(node, key, i) ==
    IF i >= Nkeys(node) THEN TRUE
    ELSE /\ GetKeyOk(node, i)
         /\ (Compare(GetKey(node, i), key) >= 0 \/ LookupLoopOk(node, key, i + 1))

\* A NodeLookupLE whose loop starts at index 2.
NodeLookupLE_SkipFirst(node, key) == LookupLoop(node, key, 2, 0)

NodeLookupLE(node, key) == LookupLoop(node, key, 1, 0)
NodeLookupLEOk(node, key) == LookupLoopOk(node, key, 1)

----------------------------------------------------------------------------
(* Building nodes (btree.go:190-250).                                       *)

\* The offsets new.SetOffset(dstNew+i, dstBegin + old.GetOffset(srcOld+i) - srcBegin)
\* writes for i = 1..n, as the 2n bytes they occupy.
RangeOffsets(new, old, dstNew, srcOld, n) ==
    LET Half(off, j) == IF j % 2 = 1 THEN off % 256 ELSE off \div 256
    IN  [j \in 1..(2 * n) |->
            Half(u16(GetOffset(new, dstNew) + GetOffset(old, srcOld + (j + 1) \div 2)
                     - GetOffset(old, srcOld)), j)]

NodeAppendRangeOk(new, old, dstNew, srcOld, n) ==
    /\ srcOld + n <= Nkeys(old)
    /\ dstNew + n <= Nkeys(new)
    /\ n = 0 \/ ( /\ \A i \in 0..(n - 1) : GetPtrOk(old, srcOld + i)
                  /\ \A i \in 0..n : GetOffsetOk(old, srcOld + i)
                  /\ KvPos(old, srcOld) <= KvPos(old, srcOld + n)
                  /\ KvPos(old, srcOld + n) <= Len(old.Data)
                  /\ KvPos(new, dstNew) <= new.len )

NodeAppendRange(new, old, dstNew, srcOld, n) ==
    IF n = 0 THEN new
    ELSE [new EXCEPT !.Data =
            Copy(Copy(Copy(@, u16(HEADER + 8 * dstNew),
                           SubSeq(old.Data, u16(HEADER + 8 * srcOld) + 1,
                                  u16(HEADER + 8 * srcOld) + 8 * n)),
                      OffsetPos(new, dstNew + 1),
                      RangeOffsets(new, old, dstNew, srcOld, n)),
                 KvPos(new, dstNew),
                 SubSeq(old.Data, KvPos(old, srcOld) + 1, KvPos(old, srcOld + n)))]

NodeAppendKV(new, idx, ptr, key, val) ==
    LET Put(n1) ==
            SetOffset([n1 EXCEPT !.Data =
                          Copy(@, KvPos(n1, idx),
                               Bytes16(Len(key)) \o Bytes16(Len(val)) \o key \o val)],
                      idx + 1,
                      GetOffset(n1, idx) + 4 + u16(Len(key) + Len(val)))
    IN  Put(SetPtr(new, idx, ptr))

\* A LeafInsert that puts the new entry in front of all the old ones.
LeafInsert_AtFront(new, old, idx, key, val) ==
    NodeAppendRange(
        NodeAppendKV(SetHeader(new, BNODE_LEAF, u16(Nkeys(old) + 1)), 0, 0, key, val),
        old, 1, 0, Nkeys(old))

LeafInsert(new, old, idx, key, val) ==
    NodeAppendRange(
        NodeAppendKV(
            NodeAppendRange(SetHeader(new, BNODE_LEAF, u16(Nkeys(old) + 1)), old, 0, 0, idx),
            idx, 0, key, val),
        old, idx + 1, idx, Nkeys(old) - idx)

LeafUpadate(new, old, idx, key, val) ==
    NodeAppendRange(
        NodeAppendKV(
            NodeAppendRange(SetHeader(new, BNODE_LEAF, u16(Nkeys(old) + 1)), old, 0, 0, idx),
            idx, 0, key, val),
        old, idx + 1, idx, Nkeys(old) - idx)

\* A LeafDelete that drops every entry from idx on.
LeafDelete_DropTail(new, old, idx) ==
    NodeAppendRange(SetHeader(new, BNODE_LEAF, u16(idx - 1)), old, 0, 0, idx - 1)

LeafDelete(new, old, idx) ==
    NodeAppendRange(
        NodeAppendRange(SetHeader(new, BNODE_LEAF, u16(Nkeys(old) - 1)), old, 0, 0, idx),
        old, idx, idx + 1, Nkeys(old) - (idx + 1))

NodeMerge(new, left, right) ==
    NodeAppendRange(
        NodeAppendRange(SetHeader(new, Btype(left), u16(Nkeys(left) + Nkeys(right))),
                        left, 0, 0, Nkeys(left)),
        right, Nkeys(left), 0, Nkeys(right))

----------------------------------------------------------------------------
(* The page callbacks of the tree (BTree.Get / New / Del).  A store st is a *)
(* record with a field kind; st.panic records that the process panicked,    *)
(* after which nothing more is executed.  st.handed lists, for each node    *)
(* handed to New, its Nbytes (or -1 when Nbytes itself is out of range),    *)
(* st.freed the page numbers that Del has deallocated, st.made the page     *)
(* numbers that New has returned, each with `held`: whether the store held  *)
(* an entry under that number already.                                      *)

Panic(st) == [st EXCEPT !.panic = TRUE]

\* The panic of a Get or Del callback called with a page number that is not
\* allocated; st.wild records that the process died of it.
Wild(st) == [st EXCEPT !.panic = TRUE, !.wild = TRUE]

NbytesOrBad(node) == IF NbytesOk(node) THEN Nbytes(node) ELSE -1

\* newC (part_000:31-56): pages is the map from page key to (packed) node.
\* The key is the address of the node's buffer: any value no live page has.
C_FreshKey(pages) ==
    CHOOSE p \in 1..(Cardinality(DOMAIN pages) + 1) :
        p \notin DOMAIN pages /\ \A q \in 1..(p - 1) : q \in DOMAIN pages

C_GetOk(st, ptr) == ptr \in DOMAIN st.pages
C_Get(st, ptr) == Unpack(st.pages[ptr])

C_New(st, node) ==
    LET Store(logged, key) ==
            IF ~(NbytesOk(node) /\ Nbytes(node) <= BTREE_PAGE_SIZE)
            THEN [st |-> Panic(logged), ptr |-> 0]
            ELSE [st |-> [logged EXCEPT !.pages = (key :> Pack(node)) @@ @,
                                        !.made = Append(@, [ptr |-> key, held |-> FALSE])],
                  ptr |-> key]
    IN  Store([st EXCEPT !.handed = Append(@, NbytesOrBad(node))], C_FreshKey(st.pages))

C_Del(st, ptr) ==
    IF ptr \notin DOMAIN st.pages THEN Wild(st)
    ELSE [st EXCEPT !.pages = [p \in DOMAIN @ \ {ptr} |-> @[p]],
                    !.freed = Append(@, ptr)]

\* The KV store (kv.go:12-53, 211-231).  A KV store is [kind |-> "KV", db, disk,
\* panic, handed]: db is the KV struct, disk the file as a sequence of packed
\* pages.  Every mapping of mmap_windows.go starts at file offset 0, so
\* db.chunks keeps the length in bytes of each chunk.
NilPage == [runs |-> << >>, len |-> 0]

\* The bytes of the file from page `first` to page `last` (0-based).
RECURSIVE DiskBytes(_, _, _)
DiskBytes(disk, first, last) ==
    IF first > last \/ first >= Len(disk) THEN << >>
    ELSE UnpackBytes(disk[first + 1]) \o DiskBytes(disk, first + 1, last)

\* The loop of PageGetMapped: the chunk holding ptr and the page inside it.
RECURSIVE FindChunk(_, _, _, _)
FindChunk(chunks, ptr, i, start) ==
    IF i > Len(chunks) THEN [ok |-> FALSE, chunk |-> 0, page |-> 0]
    ELSE LET end == start + chunks[i] \div BTREE_PAGE_SIZE
         IN  IF ptr < end THEN [ok |-> TRUE, chunk |-> i, page |-> ptr - start]
             ELSE FindChunk(chunks, ptr, i + 1, end)

\* chunk[offset : offset+BTREE_PAGE_SIZE]: length one page, capacity up to the
\* end of the chunk.
PageGetMapped(db, disk, ptr) ==
    LET m == FindChunk(db.chunks, ptr, 1, 0)
    IN  [Data |-> DiskBytes(disk, m.page, db.chunks[m.chunk] \div BTREE_PAGE_SIZE - 1),
         len |-> BTREE_PAGE_SIZE]

PageGetOk(st, ptr) ==
    IF ptr \in DOMAIN st.db.updates THEN st.db.updates[ptr] # NilPage
    ELSE FindChunk(st.db.chunks, ptr, 1, 0).ok

PageGet(st, ptr) ==
    IF ptr \in DOMAIN st.db.updates THEN Unpack(st.db.updates[ptr])
    ELSE PageGetMapped(st.db, st.disk, ptr)

\* FreeList.Total (freelist.go:22-24)
Total == 0

\* The free-list callbacks get, new and use are never assigned: calling one
\* panics, so PageNew panics if it ever takes the reuse branch.
PageStore(st, logged, node, ptr) ==
    IF ~(node.len <= BTREE_PAGE_SIZE) \/ st.db.nfree < Total
    THEN [st |-> Panic(logged), ptr |-> 0]
    ELSE [st |-> [logged EXCEPT
                    !.db.nappend = @ + 1,
                    !.db.updates = (ptr :> Pack(node)) @@ @,
                    !.made = Append(@, [ptr |-> ptr,
                                        held |-> ptr \in DOMAIN st.db.updates])],
          ptr |-> ptr]

\* A PageNew that skips a page number.
PageNew_SkipOne(st, node) ==
    PageStore(st, [st EXCEPT !.handed = Append(@, NbytesOrBad(node))], node,
              st.db.flushed + st.db.nappend + 1)

PageNew(st, node) ==
    PageStore(st, [st EXCEPT !.handed = Append(@, NbytesOrBad(node))], node,
              st.db.flushed + st.db.nappend)

PageDel(st, ptr) ==
    [st EXCEPT !.db.updates = (ptr :> NilPage) @@ @, !.freed = Append(@, ptr)]

StGetOk(st, ptr) == IF st.kind = "C" THEN C_GetOk(st, ptr) ELSE PageGetOk(st, ptr)
StGet(st, ptr) == IF st.kind = "C" THEN C_Get(st, ptr) ELSE PageGet(st, ptr)
StNew(st, node) ==
    IF st.panic THEN [st |-> st, ptr |-> 0]
    ELSE IF st.kind = "C" THEN C_New(st, node) ELSE PageNew(st, node)
StDel(st, ptr) ==
    IF st.panic THEN st
    ELSE IF st.kind = "C" THEN C_Del(st, ptr) ELSE PageDel(st, ptr)

\* A bound on the length of any path of page links in the store.
StFuel(st) ==
    IF st.kind = "C" THEN Cardinality(DOMAIN st.pages) + 1
    ELSE st.db.flushed + st.db.nappend + 1

----------------------------------------------------------------------------
(* Split (btree.go:301-339).                                                *)

\* NodeSplit2 copies the first half of old's buffer into left and the second
\* half into right; the reslicing of left.Data and right.Data is local to it.
NodeSplit2(left, right, old) ==
    LET mid == old.len \div 2
    IN  << [left EXCEPT !.Data = Copy(@, 0, SubSeq(old.Data, 1, mid))],
           [right EXCEPT !.Data = Copy(@, 0, SubSeq(old.Data, mid + 1, old.len))] >>

NodeSplit3Ok(old) ==
    /\ NbytesOk(old)
    /\ Nbytes(old) > BTREE_PAGE_SIZE =>
         LET s == NodeSplit2(MakeNode(2 * BTREE_PAGE_SIZE), MakeNode(BTREE_PAGE_SIZE), old)
         IN  Btype(s[1]) > BTREE_PAGE_SIZE =>
               LET t == NodeSplit2(MakeNode(BTREE_PAGE_SIZE), MakeNode(BTREE_PAGE_SIZE), s[1])
               IN  NbytesOk(t[1]) /\ Nbytes(t[1]) <= BTREE_PAGE_SIZE

\* The 1 to 3 nodes NodeSplit3 returns.
NodeSplit3(old) ==
    IF Nbytes(old) <= BTREE_PAGE_SIZE
    THEN << [old EXCEPT !.len = BTREE_PAGE_SIZE] >>
    ELSE LET s == NodeSplit2(MakeNode(2 * BTREE_PAGE_SIZE), MakeNode(BTREE_PAGE_SIZE), old)
         IN  IF Btype(s[1]) <= BTREE_PAGE_SIZE
             THEN << [s[1] EXCEPT !.len = BTREE_PAGE_SIZE], s[2] >>
             ELSE LET t == NodeSplit2(MakeNode(BTREE_PAGE_SIZE),
                                      MakeNode(BTREE_PAGE_SIZE), s[1])
                  IN  << t[1], t[2], s[2] >>

----------------------------------------------------------------------------
(* Replacing links in an internal node (btree.go:341-353, 446-461).         *)

\* The loop of NodeReplaceKidN / BTree.Insert over the kids from kid i on:
\*   NodeAppendKV(new, idx+i, tree.New(node), node.GetKey(0), nil)
\* tree = "nil" is the nil *BTree that NodeReplace2Kid passes: tree.New panics.
RECURSIVE AppendKids(_, _, _, _, _, _)
AppendKids(tree, st, new, idx, kids, i) ==
    LET Link(a) ==
            IF a.st.panic THEN [st |-> a.st, node |-> new]
            ELSE IF ~GetKeyOk(kids[i], 0) THEN [st |-> Panic(a.st), node |-> new]
            ELSE AppendKids(tree, a.st,
                            NodeAppendKV(new, idx + i - 1, a.ptr, GetKey(kids[i], 0), << >>),
                            idx, kids, i + 1)
    IN  IF st.panic \/ i > Len(kids) THEN [st |-> st, node |-> new]
        ELSE IF tree = "nil" THEN [st |-> Panic(st), node |-> new]
        ELSE Link(StNew(st, kids[i]))

\* The last step of NodeReplaceKidN, on the result k of the loop:
\*   NodeAppendRange(new, old, idx+inc, idx+1, old.Nkeys()-(idx+1))
AppendTail(k, old, dstNew, srcOld, n) ==
    IF k.st.panic THEN k
    ELSE IF ~NodeAppendRangeOk(k.node, old, dstNew, srcOld, n)
    THEN [st |-> Panic(k.st), node |-> k.node]
    ELSE [st |-> k.st, node |-> NodeAppendRange(k.node, old, dstNew, srcOld, n)]

NodeReplaceKidN(tree, st, new, old, idx, kids) ==
    LET inc == Len(kids)
        h == SetHeader(new, BNODE_NODE, u16(Nkeys(old) + inc - 1))
    IN  IF st.panic THEN [st |-> st, node |-> new]
        ELSE IF ~NodeAppendRangeOk(h, old, 0, 0, idx) THEN [st |-> Panic(st), node |-> h]
        ELSE AppendTail(AppendKids(tree, st, NodeAppendRange(h, old, 0, 0, idx),
                                   idx, kids, 1),
                        old, idx + inc, idx + 1, u16(Nkeys(old) - (idx + 1)))

\* tempChild: a one-key leaf header, the key copied over the start of the
\* buffer, pointer 0 set to val; then NodeReplaceKidN(nil, ...).
NodeReplace2Kid(st, new, parentNode, idx, val, key) ==
    LET t0 == SetHeader(MakeNode(BTREE_PAGE_SIZE), BNODE_LEAF, 1)
        t1 == [t0 EXCEPT !.Data = Copy(@, 0, key)]
    IN  IF ~(0 < Nkeys(t1)) THEN [st |-> Panic(st), node |-> new]
        ELSE NodeReplaceKidN("nil", st, new, parentNode, idx, << SetPtr(t1, 0, val) >>)

----------------------------------------------------------------------------
(* Insertion (btree.go:252-299, 484-516).  Results are [st, node].          *)

LeafInsertOk(new, old, idx) ==
    LET h == SetHeader(new, BNODE_LEAF, u16(Nkeys(old) + 1))
    IN  /\ NodeAppendRangeOk(h, old, 0, 0, idx)
        /\ NodeAppendRangeOk(h, old, idx + 1, idx, u16(Nkeys(old) - idx))

RECURSIVE TreeInsert(_, _, _, _)
RECURSIVE NodeInsert(_, _, _, _, _, _)

TreeInsert(st, node, key, val) ==
    LET new == MakeNode(2 * BTREE_PAGE_SIZE)
        idx == NodeLookupLE(node, key)
    IN  IF st.panic THEN [st |-> st, node |-> new]
        ELSE IF ~NodeLookupLEOk(node, key) THEN [st |-> Panic(st), node |-> new]
        ELSE IF Btype(node) = BNODE_LEAF
        THEN IF ~GetKeyOk(node, idx) THEN [st |-> Panic(st), node |-> new]
             ELSE IF key = GetKey(node, idx)
             THEN IF ~LeafInsertOk(new, node, idx) THEN [st |-> Panic(st), node |-> new]
                  ELSE [st |-> st, node |-> LeafUpadate(new, node, idx, key, val)]
             ELSE IF ~LeafInsertOk(new, node, idx + 1)
                  THEN [st |-> Panic(st), node |-> new]
                  ELSE [st |-> st, node |-> LeafInsert(new, node, idx + 1, key, val)]
        ELSE IF Btype(node) = BNODE_NODE
        THEN NodeInsert(st, new, node, idx, key, val)
        ELSE [st |-> Panic(st), node |-> new]

NodeInsert(st, new, node, idx, key, val) ==
    LET kptr == GetPtr(node, idx)
        r == TreeInsert(StDel(st, kptr), StGet(st, kptr), key, val)
    IN  IF ~GetPtrOk(node, idx) THEN [st |-> Panic(st), node |-> new]
        ELSE IF ~StGetOk(st, kptr) THEN [st |-> Wild(st), node |-> new]
        ELSE IF r.st.panic THEN [st |-> r.st, node |-> new]
        ELSE IF ~NodeSplit3Ok(r.node) THEN [st |-> Panic(r.st), node |-> new]
        ELSE NodeReplaceKidN("tree", r.st, new, node, idx, NodeSplit3(r.node))

\* BTree.Insert from NodeSplit3 on, r the result of TreeInsert on the root.
InsertSplit(root, r) ==
    LET splitted == NodeSplit3(r.node)
        Assign(a) == [st |-> a.st, root |-> IF a.st.panic THEN root ELSE a.ptr]
        NewRoot(k) == Assign(StNew(k.st, k.node))
    IN  IF r.st.panic THEN [st |-> r.st, root |-> root]
        ELSE IF ~NodeSplit3Ok(r.node) THEN [st |-> Panic(r.st), root |-> root]
        ELSE IF Len(splitted) > 1
        THEN NewRoot(AppendKids("tree", r.st,
                                SetHeader(MakeNode(BTREE_PAGE_SIZE), BNODE_NODE,
                                          Len(splitted)),
                                0, splitted, 1))
        ELSE Assign(StNew(r.st, splitted[1]))

\* BTree.Insert: [st, root] after the call; root is assigned last.
Insert(st, root, key, val) ==
    LET Assign(a) == [st |-> a.st, root |-> IF a.st.panic THEN root ELSE a.ptr]
        h == SetHeader(MakeNode(BTREE_PAGE_SIZE), BNODE_LEAF, 2)
    IN  IF st.panic THEN [st |-> st, root |-> root]
        ELSE IF Len(key) = 0 \/ Len(key) > BTREE_MAX_KEY_SIZE
                \/ Len(val) > BTREE_MAX_VAL_SIZE
        THEN [st |-> Panic(st), root |-> root]
        ELSE IF root = 0
        THEN Assign(StNew(st, NodeAppendKV(NodeAppendKV(h, 0, 0, << >>, << >>),
                                           1, 0, key, val)))
        ELSE IF ~StGetOk(st, root) THEN [st |-> Wild(st), root |-> root]
        ELSE InsertSplit(root, TreeInsert(StDel(st, root), StGet(st, root), key, val))

----------------------------------------------------------------------------
(* Deletion (btree.go:355-482).  Results are [st, node]; node = EmptyNode   *)
(* is the "not found" result BNode{}.                                       *)

LeafDeleteOk(new, old, idx) ==
    LET h == SetHeader(new, BNODE_LEAF, u16(Nkeys(old) - 1))
    IN  /\ NodeAppendRangeOk(h, old, 0, 0, idx)
        /\ NodeAppendRangeOk(h, old, idx, idx + 1, u16(Nkeys(old) - (idx + 1)))

NodeMergeOk(new, left, right) ==
    LET h == SetHeader(new, Btype(left), u16(Nkeys(left) + Nkeys(right)))
    IN  /\ NodeAppendRangeOk(h, left, 0, 0, Nkeys(left))
        /\ NodeAppendRangeOk(NodeAppendRange(h, left, 0, 0, Nkeys(left)),
                             right, Nkeys(left), 0, Nkeys(right))

\* ShouldMerge: [ok, dir, sibling]; ok = FALSE when it panics.  Side(i, dir,
\* otherwise) is the test of the sibling at link i, `otherwise` what follows
\* when the merged node would not fit.
ShouldMerge(st, node, idx, updated) ==
    LET none == [ok |-> TRUE, wild |-> FALSE, dir |-> 0, sibling |-> EmptyNode]
        bad == [ok |-> FALSE, wild |-> FALSE, dir |-> 0, sibling |-> EmptyNode]
        miss == [ok |-> FALSE, wild |-> TRUE, dir |-> 0, sibling |-> EmptyNode]
        Fits(sibling, dir, otherwise) ==
            IF ~NbytesOk(sibling) THEN bad
            ELSE IF u16(Nbytes(sibling) + Nbytes(updated) - HEADER) <= BTREE_PAGE_SIZE
            THEN [ok |-> TRUE, wild |-> FALSE, dir |-> dir, sibling |-> sibling]
            ELSE otherwise
        Side(i, dir, otherwise) ==
            IF ~GetPtrOk(node, i) THEN bad
            ELSE IF ~StGetOk(st, GetPtr(node, i)) THEN miss
            ELSE Fits(StGet(st, GetPtr(node, i)), dir, otherwise)
        tryRight == IF idx + 1 < Nkeys(node) THEN Side(idx + 1, 1, none) ELSE none
    IN  IF ~NbytesOk(updated) THEN bad
        ELSE IF Nbytes(updated) > BTREE_PAGE_SIZE \div 4 THEN none
        ELSE IF idx > 0 THEN Side(idx - 1, -1, tryRight)
        ELSE tryRight

RECURSIVE TreeDelete(_, _, _)
RECURSIVE NodeDelete(_, _, _, _)

TreeDelete(st, node, key) ==
    LET idx == NodeLookupLE(node, key)
        new == MakeNode(BTREE_PAGE_SIZE)
    IN  IF st.panic THEN [st |-> st, node |-> EmptyNode]
        ELSE IF ~NodeLookupLEOk(node, key) THEN [st |-> Panic(st), node |-> EmptyNode]
        ELSE IF Btype(node) = BNODE_LEAF
        THEN IF ~GetKeyOk(node, idx) THEN [st |-> Panic(st), node |-> EmptyNode]
             ELSE IF key # GetKey(node, idx) THEN [st |-> st, node |-> EmptyNode]
             ELSE IF ~LeafDeleteOk(new, node, idx) THEN [st |-> Panic(st), node |-> EmptyNode]
             ELSE [st |-> st, node |-> LeafDelete(new, node, idx)]
        ELSE IF Btype(node) = BNODE_NODE
        THEN NodeDelete(st, node, idx, key)
        ELSE [st |-> Panic(st), node |-> EmptyNode]

\* The end of a merge branch of NodeDelete, a the result of tree.New(merged):
\*   NodeReplace2Kid(new, node, at, tree.New(merged), merged.GetKey(0))
MergeLink(a, node, new, at, merged) ==
    IF a.st.panic THEN [st |-> a.st, node |-> new]
    ELSE IF ~GetKeyOk(merged, 0) THEN [st |-> Panic(a.st), node |-> new]
    ELSE NodeReplace2Kid(a.st, new, node, at, a.ptr, GetKey(merged, 0))

\* A merge branch of NodeDelete towards the sibling at sidx, at = the index
\* of the left one of the two links.
MergeInto(st, node, new, left, right, sidx, at) ==
    LET merged == NodeMerge(MakeNode(BTREE_PAGE_SIZE), left, right)
    IN  IF ~NodeMergeOk(MakeNode(BTREE_PAGE_SIZE), left, right)
        THEN [st |-> Panic(st), node |-> new]
        ELSE MergeLink(StNew(StDel(st, GetPtr(node, sidx)), merged), node, new, at, merged)

\* NodeDelete from the switch on, m the result of ShouldMerge and d the store
\* after tree.Del(kptr).
MergeKid(d, node, new, idx, updated, m) ==
    IF d.panic THEN [st |-> d, node |-> new]
    ELSE IF ~m.ok THEN [st |-> IF m.wild THEN Wild(d) ELSE Panic(d), node |-> new]
    ELSE IF m.dir # 0
    THEN MergeInto(d, node, new,
                   IF m.dir < 0 THEN m.sibling ELSE updated,
                   IF m.dir < 0 THEN updated ELSE m.sibling,
                   idx + m.dir,
                   IF m.dir < 0 THEN idx - 1 ELSE idx)
    ELSE IF ~(Nkeys(updated) > 0) THEN [st |-> Panic(d), node |-> new]
    ELSE NodeReplaceKidN("tree", d, new, node, idx, << updated >>)

NodeDelete(st, node, idx, key) ==
    LET kptr == GetPtr(node, idx)
        r == TreeDelete(st, StGet(st, kptr), key)
    IN  IF ~GetPtrOk(node, idx) THEN [st |-> Panic(st), node |-> EmptyNode]
        ELSE IF ~StGetOk(st, kptr) THEN [st |-> Wild(st), node |-> EmptyNode]
        ELSE IF r.st.panic \/ r.node.len = 0 THEN [st |-> r.st, node |-> EmptyNode]
        ELSE MergeKid(StDel(r.st, kptr), node, MakeNode(BTREE_PAGE_SIZE), idx, r.node,
                      ShouldMerge(StDel(r.st, kptr), node, idx, r.node))

\* A BTree.Delete that stores every updated root in a new page.
ReplaceRoot_NoPromote(d, root, updated) ==
    IF d.panic THEN [st |-> d, root |-> root, ret |-> FALSE]
    ELSE [st |-> StNew(d, updated).st,
          root |-> IF StNew(d, updated).st.panic THEN root ELSE StNew(d, updated).ptr,
          ret |-> ~StNew(d, updated).st.panic]

\* BTree.Delete from tree.Del(tree.root) on, d the store after it.
ReplaceRoot(d, root, updated) ==
    LET Assign(a) ==
            [st |-> a.st, root |-> IF a.st.panic THEN root ELSE a.ptr, ret |-> ~a.st.panic]
    IN  IF d.panic THEN [st |-> d, root |-> root, ret |-> FALSE]
        ELSE IF Btype(updated) = BNODE_NODE /\ Nkeys(updated) = 1
        THEN IF ~GetPtrOk(updated, 0)
             THEN [st |-> Panic(d), root |-> root, ret |-> FALSE]
             ELSE [st |-> d, root |-> GetPtr(updated, 0), ret |-> TRUE]
        ELSE Assign(StNew(d, updated))

\* A BTree.Delete that deallocates the old root twice.
DeleteUpdated_DelTwice(root, r) ==
    IF r.st.panic \/ r.node.len = 0 THEN [st |-> r.st, root |-> root, ret |-> FALSE]
    ELSE ReplaceRoot(StDel(StDel(r.st, root), root), root, r.node)

\* A BTree.Delete that does not deallocate the old root.
DeleteUpdated_KeepRoot(root, r) ==
    IF r.st.panic \/ r.node.len = 0 THEN [st |-> r.st, root |-> root, ret |-> FALSE]
    ELSE ReplaceRoot(r.st, root, r.node)

\* A BTree.Delete that drops the root when the key was not found.
DeleteUpdated_DropOnMiss(root, r) ==
    IF r.st.panic THEN [st |-> r.st, root |-> root, ret |-> FALSE]
    ELSE IF r.node.len = 0 THEN [st |-> StDel(r.st, root), root |-> 0, ret |-> FALSE]
    ELSE ReplaceRoot(StDel(r.st, root), root, r.node)

\* BTree.Delete from the test of TreeDelete's result r on.
DeleteUpdated(root, r) ==
    IF r.st.panic \/ r.node.len = 0 THEN [st |-> r.st, root |-> root, ret |-> FALSE]
    ELSE ReplaceRoot(StDel(r.st, root), root, r.node)

\* A BTree.Delete without the assertions on the key.
Delete_NoAssert(st, root, key) ==
    IF st.panic THEN [st |-> st, root |-> root, ret |-> FALSE]
    ELSE IF root = 0 THEN [st |-> st, root |-> root, ret |-> FALSE]
    ELSE IF ~StGetOk(st, root) THEN [st |-> Wild(st), root |-> root, ret |-> FALSE]
    ELSE DeleteUpdated(root, TreeDelete(st, StGet(st, root), key))

\* BTree.Delete: [st, root, ret].
Delete(st, root, key) ==
    IF st.panic THEN [st |-> st, root |-> root, ret |-> FALSE]
    ELSE IF Len(key) = 0 \/ Len(key) > BTREE_MAX_KEY_SIZE
    THEN [st |-> Panic(st), root |-> root, ret |-> FALSE]
    ELSE IF root = 0 THEN [st |-> st, root |-> root, ret |-> FALSE]
    ELSE IF ~StGetOk(st, root) THEN [st |-> Wild(st), root |-> root, ret |-> FALSE]
    ELSE DeleteUpdated(root, TreeDelete(st, StGet(st, root), key))

----------------------------------------------------------------------------
(* Point lookup: the descent of BTree.SeekLE (btree.go:568-583) followed by *)
(* BIter.Deref.  status is "found", "notfound" or "panic".                  *)

RECURSIVE SeekLE(_, _, _, _)
SeekLE(st, ptr, key, fuel) ==
    IF fuel = 0 \/ ~StGetOk(st, ptr) THEN [status |-> "panic", val |-> << >>]
    ELSE LET node == StGet(st, ptr)
             idx == NodeLookupLE(node, key)
         IN  IF ~NodeLookupLEOk(node, key) THEN [status |-> "panic", val |-> << >>]
             ELSE IF Btype(node) = BNODE_NODE
             THEN IF ~GetPtrOk(node, idx) THEN [status |-> "panic", val |-> << >>]
                  ELSE SeekLE(st, GetPtr(node, idx), key, fuel - 1)
             ELSE IF ~GetKeyOk(node, idx) \/ ~GetValOk(node, idx)
             THEN [status |-> "panic", val |-> << >>]
             ELSE IF GetKey(node, idx) = key
             THEN [status |-> "found", val |-> GetVal(node, idx)]
             ELSE [status |-> "notfound", val |-> << >>]

TreeGet(st, ptr, key) ==
    IF ptr = 0 THEN [status |-> "notfound", val |-> << >>]
    ELSE SeekLE(st, ptr, key, StFuel(st))

----------------------------------------------------------------------------
(* The master page, the file and the mappings (kv.go:55-209,                *)
(* mmap_windows.go:72-139).  These work on m = [db, disk].                  *)

\* DB_SIG = "DungeonDB01"
DB_SIG == << 68, 117, 110, 103, 101, 111, 110, 68, 66, 48, 49 >>

\* The zero value of the KV struct; fp tells whether the file is open.
NewKV ==
    [fp |-> FALSE, root |-> 0, head |-> 0, file |-> 0, total |-> 0, chunks |-> << >>,
     flushed |-> 0, nfree |-> 0, nappend |-> 0, updates |-> [p \in {} |-> NilPage]]

ZeroPage == PackBytes(Zeros(BTREE_PAGE_SIZE))

\* The number of bytes of a packed page; the last page of a file may be short.
RECURSIVE RunsLen(_)
RunsLen(runs) == IF runs = << >> THEN 0 ELSE runs[1][2] + RunsLen(Tail(runs))

\* The size of the file in bytes.
FileSize(disk) ==
    IF Len(disk) = 0 THEN 0
    ELSE (Len(disk) - 1) * BTREE_PAGE_SIZE + RunsLen(disk[Len(disk)])

\* A page zero-extended to the page size.
FullPage(runs) ==
    IF RunsLen(runs) = BTREE_PAGE_SIZE THEN runs
    ELSE PackBytes(UnpackBytes(runs) \o Zeros(BTREE_PAGE_SIZE - RunsLen(runs)))

\* The file cut or zero-extended to n pages.
Resize(disk, n) ==
    [i \in 1..n |-> IF i <= Len(disk) THEN FullPage(disk[i]) ELSE ZeroPage]

\* fp.WriteAt(bytes, 0) of at most one page: the file grows to Len(bytes) if
\* it is shorter.
WriteAt0(disk, bytes) ==
    LET old == IF Len(disk) = 0 THEN << >> ELSE UnpackBytes(disk[1])
        room == old \o Zeros(Max(Len(bytes) - Len(old), 0))
    IN  [i \in 1..Max(Len(disk), 1) |->
            IF i = 1 THEN PackBytes(Copy(room, 0, bytes)) ELSE disk[i]]

\* MasterStore: the padded signature, the root and the page count, written at
\* offset 0 and synced.
MasterStore(m) ==
    LET sig == Copy(Zeros(16), 0, DB_SIG)
    IN  [m EXCEPT !.disk = WriteAt0(@, sig \o Bytes64(m.db.root) \o Bytes64(m.db.flushed))]

\* The growth loop of extendFileWindows.
RECURSIVE GrowPages(_, _)
GrowPages(filePages, npages) ==
    IF filePages >= npages THEN filePages
    ELSE GrowPages(filePages + Max(filePages \div 8, 1), npages)

extendFileWindows(m, npages) ==
    LET filePages == m.db.file \div BTREE_PAGE_SIZE
        grown == GrowPages(filePages, npages)
    IN  IF filePages >= npages THEN m
        ELSE [m EXCEPT !.disk = Resize(@, grown),
                       !.db.file = grown * BTREE_PAGE_SIZE]

\* ExtendMmapWindows: a new mapping of newSize bytes from offset 0 is appended;
\* CreateFileMapping grows a file that is shorter than the mapping.
ExtendMmapWindows(m, npages) ==
    LET newSize == m.db.total + npages * BTREE_PAGE_SIZE
    IN  [m EXCEPT !.disk = Resize(@, Max(Len(@), newSize \div BTREE_PAGE_SIZE)),
                  !.db.total = newSize,
                  !.db.chunks = Append(@, newSize)]

\* MasterLoad: [m, err]; err = "" on success.
MasterLoad(m0) ==
    LET m == [m0 EXCEPT !.db.updates = NewKV.updates]
        expectedSig == Copy(Zeros(16), 0, DB_SIG)
        data == DiskBytes(m.disk, 0, m.db.chunks[1] \div BTREE_PAGE_SIZE - 1)
        root == LE64(data, 16)
        used == LE64(data, 24)
    IN  IF m.db.file = 0
        THEN LET a == ExtendMmapWindows(MasterStore([m EXCEPT !.db.flushed = 1]), 1)
             IN  IF expectedSig # SubSeq(DiskBytes(a.disk, 0, 0), 1, 16)
                 THEN [m |-> a, err |-> "signature verification failed"]
                 ELSE [m |-> [a EXCEPT !.db.root = 0, !.db.flushed = 1], err |-> ""]
        ELSE IF expectedSig # SubSeq(data, 1, 16)
        THEN [m |-> m, err |-> "Bad signature"]
        ELSE IF used = 0
        THEN [m |-> ExtendMmapWindows(MasterStore([m EXCEPT !.db.flushed = 1]), 1),
              err |-> ""]
        ELSE IF ~(used <= m.db.file \div BTREE_PAGE_SIZE)
        THEN [m |-> m, err |-> "Bad master page: used"]
        ELSE IF ~(root < used)
        THEN [m |-> m, err |-> "Bad master page: root"]
        ELSE [m |-> [m EXCEPT !.db.root = root, !.db.flushed = used], err |-> ""]

\* CloseWindows: the master page is stored, the views unmapped, the file closed.
CloseWindows(m) == [MasterStore(m) EXCEPT !.db.fp = FALSE, !.db.chunks = << >>]

\* An OpenWindows that does not write the master page of an empty file.
OpenWindows_NoMasterStore(disk) ==
    LET m0 == [db |-> [NewKV EXCEPT !.fp = TRUE], disk |-> disk]
        m2 == ExtendMmapWindows(extendFileWindows(m0, 1), 1)
        r == MasterLoad(m2)
    IN  IF r.err = "" THEN r
        ELSE [m |-> CloseWindows(r.m), err |-> r.err]

\* OpenWindows on a fresh KV struct: [m, err].
OpenWindows(disk) ==
    LET m0 == [db |-> [NewKV EXCEPT !.fp = TRUE], disk |-> disk]
        m1 == IF Len(disk) = 0 THEN MasterStore(m0) ELSE m0
        m2 == ExtendMmapWindows(extendFileWindows(m1, 1), 1)
        r == MasterLoad(m2)
    IN  IF r.err = "" THEN r
        ELSE [m |-> CloseWindows(r.m), err |-> r.err]

----------------------------------------------------------------------------
(* The commit, FlushPagesW (freelist.go:39-109, mmap_windows.go:269-320),   *)
(* as the sequence of its steps.                                            *)

\* A SyncPagesW that writes the master page first.
SyncPagesW_MasterFirst == << "MasterStore", "Sync", "flushed", "Sync" >>

WritePagesW == << "free.Update", "extendFile", "extendMmap", "copy" >>
SyncPagesW == << "Sync", "flushed", "MasterStore", "Sync" >>
FlushPagesW == WritePagesW \o SyncPagesW

\* The pointers WritePagesW collects: the deallocated pages of the buffer.
Freed(db) == {ptr \in DOMAIN db.updates : db.updates[ptr] = NilPage}

\* FreeList.Update(db.page.nfree, freed) returns at once when there is nothing
\* to pop and nothing freed.  In every other case it calls fl.get (head # 0)
\* or, in flPush, fl.new: both are nil funcs, the call panics.
FreeListUpdateOk(db) == db.nfree <= Total /\ db.nfree = 0 /\ Freed(db) = {}

\* The copy loop of WritePagesW over the pointers in ptrs.
RECURSIVE CopyPages(_, _)
CopyPages(m, ptrs) ==
    IF ptrs = {} THEN [m |-> m, panic |-> FALSE]
    ELSE LET ptr == CHOOSE p \in ptrs : \A q \in ptrs : p <= q
             at == FindChunk(m.db.chunks, ptr, 1, 0)
             page == m.db.updates[ptr]
             src == SubSeq(UnpackBytes(page.runs), 1, page.len)
         IN  IF page = NilPage THEN CopyPages(m, ptrs \ {ptr})
             ELSE IF ~at.ok THEN [m |-> m, panic |-> TRUE]
             ELSE CopyPages(
                    [m EXCEPT !.disk[at.page + 1] =
                        PackBytes(Copy(UnpackBytes(@), 0, src))],
                    ptrs \ {ptr})

\* A CountFlushed that keeps the update buffer.
CountFlushed_KeepUpdates(db) ==
    [db EXCEPT !.flushed = @ + Cardinality(DOMAIN db.updates)]

\* db.page.flushed += len(db.page.updates); db.page.updates = make(...)
CountFlushed(db) ==
    [db EXCEPT !.flushed = @ + Cardinality(DOMAIN db.updates), !.updates = NewKV.updates]

\* One step of the commit: [m, panic].
FlushStep(step, m) ==
    LET npages == m.db.flushed + Cardinality(DOMAIN m.db.updates)
    IN  CASE step = "free.Update" -> [m |-> m, panic |-> ~FreeListUpdateOk(m.db)]
          [] step = "extendFile" -> [m |-> extendFileWindows(m, npages), panic |-> FALSE]
          [] step = "extendMmap" -> [m |-> ExtendMmapWindows(m, npages), panic |-> FALSE]
          [] step = "copy" -> CopyPages(m, DOMAIN m.db.updates)
          [] step = "Sync" -> [m |-> m, panic |-> FALSE]
          [] step = "flushed" -> [m |-> [m EXCEPT !.db = CountFlushed(@)], panic |-> FALSE]
          [] step = "MasterStore" -> [m |-> MasterStore(m), panic |-> FALSE]

----------------------------------------------------------------------------
(* The tree driven through the integration harness C (part_000:25-66).      *)

\* Bounds of the model.
MaxOps == 4

\* Inputs: keys "a", "b"; values given as [len, fill], the bytes Fill(len, fill).
Keys == { << 97 >>, << 98 >> }
Vals == { [len |-> 1, fill |-> 120], [len |-> 1000, fill |-> 121],
          [len |-> 3000, fill |-> 122] }
ValBytes(v) == Fill(v.len, v.fill)

VARIABLES
    root,       \* c.tree.root
    pages,      \* c.pages
    ref,        \* c.ref, values as [len, fill]
    panicked,   \* the process has panicked
    issued,     \* ghost: the latest Insert(K, v) called for K, if no Delete(K) was called since
    handed,     \* ghost: Nbytes of every node the last operation handed to tree.New
    last,       \* ghost: the last operation [op, key, ret, wild, freed]
    nops        \* ghost: number of operations so far

\* The KV store, its file and the process using it.
VARIABLES
    db,         \* the KV struct
    disk,       \* the database file: its pages, packed
    kpc,        \* 0, or the index in FlushPagesW of the next step of the running commit
    klog,       \* ghost: the steps the running or last commit has taken
    kref,       \* ghost: the keys and values set in db.tree
    kcommitted, \* ghost: [root, used, kv] of the last successful commit
    klast,      \* ghost: the last event [op, ok, prev, at, made]
    kopens,     \* ghost: number of OpenWindows calls
    kops        \* ghost: number of SetW and DelW calls

\* A range scan over the harness's tree.
VARIABLES
    sc,         \* the Scanner: [Cmp1, Cmp2, Key1, keyEnd, iter], iter with packed nodes
    scstate,    \* "none", "open", "done" (Valid() returned false) or "panic"
    scout       \* ghost: the keys the scan has yielded, in order

\* The table layer over the KV store.
VARIABLES
    tlast,      \* ghost: the last table operation and what it returned
    trows,      \* ghost: primary key -> row, the rows that Set calls have put and no Delete removed
    ttables,    \* ghost: the definitions of the TableNew calls that returned nil, in order
    tcnt        \* ghost: number of table operations so far

\* A call of one function of the program on given arguments.
VARIABLES
    fcall,      \* the function and its arguments, [fn |-> "none"] when there is no call
    fret        \* what the call returned, [fn |-> "none"] before it returns

treeVars == << root, pages, ref, panicked, issued, handed, last, nops >>
kvVars == << db, disk, kpc, klog, kref, kcommitted, klast, kopens, kops >>
scanVars == << sc, scstate, scout >>
tblVars == << tlast, trows, ttables, tcnt >>
fnVars == << fcall, fret >>
vars == << treeVars, kvVars, scanVars, tblVars, fnVars >>

CStore == [kind |-> "C", pages |-> pages, panic |-> FALSE, handed |-> << >>,
            wild |-> FALSE, freed |-> << >>, made |-> << >>]

NoMap == [k \in {} |-> 0]
MapPut(m, k, v) == (k :> v) @@ m
MapDel(m, k) == [j \in DOMAIN m \ {k} |-> m[j]]

\* The start of everything but the store and its file.
InitRest ==
    /\ kpc = 0
    /\ klog = << >>
    /\ kref = NoMap
    /\ kcommitted = [root |-> 0, used |-> 0, kv |-> NoMap]
    /\ klast = [op |-> "none", ok |-> TRUE, prev |-> "none", at |-> 0, made |-> << >>]
    /\ kopens = 0
    /\ kops = 0
    /\ root = 0
    /\ pages = NoMap
    /\ ref = NoMap
    /\ panicked = FALSE
    /\ issued = NoMap
    /\ handed = << >>
    /\ last = [op |-> "none", key |-> << >>, ret |-> FALSE, wild |-> FALSE,
               freed |-> << >>]
    /\ nops = 0
    /\ sc = [Cmp1 |-> 0, Cmp2 |-> 0, Key1 |-> << >>, keyEnd |-> << >>,
             iter |-> [path |-> << >>, pos |-> << >>, panic |-> FALSE]]
    /\ scstate = "none"
    /\ scout = << >>
    /\ tlast = [op |-> "none", name |-> << >>, valid |-> FALSE, stored |-> FALSE,
                added |-> FALSE, err |-> "", panic |-> FALSE, same |-> TRUE]
    /\ trows = NoMap
    /\ ttables = << >>
    /\ tcnt = 0

NoCall == [fn |-> "none"]

Init ==
    /\ db = NewKV
    /\ disk = << >>
    /\ InitRest
    /\ fcall = NoCall
    /\ fret = NoCall

\* c.add(key, val): c.tree.Insert(key, val); c.ref[key] = val
Add(key, val) ==
    /\ ~panicked /\ nops < MaxOps
    /\ \E r \in { Insert(CStore, root, key, ValBytes(val)) } :
           /\ root' = r.root
           /\ pages' = r.st.pages
           /\ panicked' = r.st.panic
           /\ handed' = r.st.handed
           /\ ref' = IF r.st.panic THEN ref ELSE MapPut(ref, key, val)
           /\ last' = [op |-> "add", key |-> key, ret |-> TRUE, wild |-> r.st.wild,
                        freed |-> r.st.freed]
    /\ issued' = MapPut(issued, key, val)
    /\ nops' = nops + 1
    /\ UNCHANGED << kvVars, scanVars, tblVars, fnVars >>

\* c.del(key): delete(c.ref, key); return c.tree.Delete(key)
Del(key) ==
    /\ ~panicked /\ nops < MaxOps
    /\ \E r \in { Delete(CStore, root, key) } :
           /\ root' = r.root
           /\ pages' = r.st.pages
           /\ panicked' = r.st.panic
           /\ handed' = r.st.handed
           /\ last' = [op |-> "del", key |-> key, ret |-> r.ret, wild |-> r.st.wild,
                        freed |-> r.st.freed]
    /\ ref' = MapDel(ref, key)
    /\ issued' = MapDel(issued, key)
    /\ nops' = nops + 1
    /\ UNCHANGED << kvVars, scanVars, tblVars, fnVars >>

TreeNext ==
    \/ \E key \in Keys, val \in Vals : Add(key, val)
    \/ \E key \in Keys : Del(key)

SpecTree == Init /\ [][TreeNext]_vars

----------------------------------------------------------------------------
(* A process using the KV store (part_001:22-35): it opens the file with a  *)
(* fresh KV struct, calls SetW and DelW, closes.  It may crash at any       *)
(* moment; a crash or a panic ends the process and leaves the file as it    *)
(* is.  A commit advances one step of FlushPagesW at a time.                *)

MaxOpens == 3
MaxKVOps == 2

KVStore == [kind |-> "KV", db |-> db, disk |-> disk, panic |-> FALSE, handed |-> << >>,
            wild |-> FALSE, freed |-> << >>, made |-> << >>]

\* The process is gone: the KV struct with it.
Gone(op) ==
    /\ db' = NewKV
    /\ kpc' = 0
    /\ klast' = [op |-> op, ok |-> FALSE, prev |-> klast.op, at |-> kpc, made |-> << >>]

KVOpen ==
    /\ ~db.fp /\ kopens < MaxOpens
    /\ \E r \in { OpenWindows(disk) } :
           /\ db' = r.m.db
           /\ disk' = r.m.disk
           /\ klast' = [op |-> "open", ok |-> r.err = "", prev |-> klast.op, at |-> klast.at,
                        made |-> << >>]
           /\ kcommitted' = IF Len(disk) = 0 /\ r.err = ""
                            THEN [root |-> r.m.db.root, used |-> r.m.db.flushed, kv |-> NoMap]
                            ELSE kcommitted
    /\ kref' = kcommitted'.kv
    /\ kopens' = kopens + 1
    /\ kpc' = 0
    /\ klog' = << >>
    /\ UNCHANGED << kops, treeVars, scanVars, tblVars, fnVars >>

\* SetW: db.tree.Insert(key, val), then FlushPagesW.
SetW(key, val) ==
    /\ db.fp /\ kpc = 0 /\ kops < MaxKVOps
    /\ \E r \in { Insert(KVStore, db.root, key, ValBytes(val)) } :
           IF r.st.panic THEN Gone("panic") /\ UNCHANGED kref
           ELSE /\ db' = [r.st.db EXCEPT !.root = r.root]
                /\ kpc' = 1
                /\ kref' = MapPut(kref, key, val)
                /\ klast' = [op |-> "set", ok |-> TRUE, prev |-> klast.op, at |-> 0,
                             made |-> r.st.made]
    /\ klog' = << >>
    /\ kops' = kops + 1
    /\ UNCHANGED << disk, kcommitted, kopens, treeVars, scanVars, tblVars, fnVars >>

\* DelW: db.tree.Delete(req.Key), then FlushPagesW.
DelW(key) ==
    /\ db.fp /\ kpc = 0 /\ kops < MaxKVOps
    /\ \E r \in { Delete(KVStore, db.root, key) } :
           IF r.st.panic THEN Gone("panic") /\ UNCHANGED kref
           ELSE /\ db' = [r.st.db EXCEPT !.root = r.root]
                /\ kpc' = 1
                /\ kref' = IF r.ret THEN MapDel(kref, key) ELSE kref
                /\ klast' = [op |-> "del", ok |-> r.ret, prev |-> klast.op, at |-> 0,
                             made |-> r.st.made]
    /\ klog' = << >>
    /\ kops' = kops + 1
    /\ UNCHANGED << disk, kcommitted, kopens, treeVars, scanVars, tblVars, fnVars >>

\* The next step of the running commit; the last one ends it with success.
CommitStep ==
    /\ db.fp /\ kpc \in DOMAIN FlushPagesW
    /\ \E r \in { FlushStep(FlushPagesW[kpc], [db |-> db, disk |-> disk]) },
          done \in { kpc = Len(FlushPagesW) } :
           IF r.panic
           THEN Gone("panic") /\ UNCHANGED << disk, klog, kcommitted >>
           ELSE /\ db' = r.m.db
                /\ disk' = r.m.disk
                /\ klog' = Append(klog, FlushPagesW[kpc])
                /\ kpc' = IF done THEN 0 ELSE kpc + 1
                /\ klast' = IF done
                            THEN [op |-> "commit", ok |-> TRUE, prev |-> klast.op, at |-> 0,
                                  made |-> << >>]
                            ELSE klast
                /\ kcommitted' = IF done
                                 THEN [root |-> db.root, used |-> db.flushed, kv |-> kref]
                                 ELSE kcommitted
    /\ UNCHANGED << kref, kopens, kops, treeVars, scanVars, tblVars, fnVars >>

KVClose ==
    /\ db.fp /\ kpc = 0
    /\ disk' = CloseWindows([db |-> db, disk |-> disk]).disk
    /\ db' = NewKV
    /\ klast' = [op |-> "close", ok |-> TRUE, prev |-> klast.op, at |-> 0, made |-> << >>]
    /\ UNCHANGED << kpc, klog, kref, kcommitted, kopens, kops, treeVars, scanVars, tblVars, fnVars >>

Crash ==
    /\ db.fp
    /\ Gone("crash")
    /\ UNCHANGED << disk, klog, kref, kcommitted, kopens, kops, treeVars, scanVars, tblVars, fnVars >>

KVNext ==
    \/ KVOpen
    \/ \E key \in Keys, val \in Vals : SetW(key, val)
    \/ \E key \in Keys : DelW(key)
    \/ CommitStep
    \/ KVClose
    \/ Crash

SpecKV == Init /\ [][KVNext]_vars

\* Lookup of key in the open store's tree.
KVGet(key) == TreeGet(KVStore, db.root, key)

\* Lookup of key in the harness's tree.
CGet(key) == TreeGet(CStore, root, key)

\* The page pointers met when following the links of internal nodes from ptr,
\* in order, one entry per link (a pointer whose page is missing is kept).
RECURSIVE Reach(_, _, _)
RECURSIVE ReachKids(_, _, _, _)
Reach(st, ptr, fuel) ==
    IF fuel = 0 \/ ~StGetOk(st, ptr) THEN << ptr >>
    ELSE IF Btype(StGet(st, ptr)) = BNODE_NODE
    THEN << ptr >> \o ReachKids(st, StGet(st, ptr), 0, fuel - 1)
    ELSE << ptr >>

ReachKids(st, node, i, fuel) ==
    IF i >= Nkeys(node) \/ ~GetPtrOk(node, i) THEN << >>
    ELSE Reach(st, GetPtr(node, i), fuel) \o ReachKids(st, node, i + 1, fuel)

TreePtrs(st, ptr) == IF ptr = 0 THEN << >> ELSE Reach(st, ptr, StFuel(st))

\* Free-list nodes (freelist.go:111-128): size, next, the idx-th pointer.
flnSize(node) == LE16(node.Data, 0)
flnNext(node) == LE64(node.Data, 2)
flnPtr(node, idx) == LE64(node.Data, 10 + idx * 8)

\* The pages of the free list from head on: each node's own page followed by
\* the page numbers it stores.
RECURSIVE FreeListPtrs(_, _, _)
FreeListPtrs(st, head, fuel) ==
    IF head = 0 \/ fuel = 0 \/ ~StGetOk(st, head) THEN << >>
    ELSE LET node == StGet(st, head)
         IN  << head >> \o [i \in 1..flnSize(node) |-> flnPtr(node, i - 1)]
             \o FreeListPtrs(st, flnNext(node), fuel - 1)

Range(seq) == {seq[i] : i \in DOMAIN seq}

\* Keys of node are readable and in non-decreasing order by index.
KeysSorted(node) ==
    /\ \A i \in 0..(Nkeys(node) - 1) : GetKeyOk(node, i)
    /\ \A i \in 1..(Nkeys(node) - 1) : Compare(GetKey(node, i - 1), GetKey(node, i)) <= 0

\* Every link of an internal node carries the first key of the child it refers to.
SeparatorsMatch(st, node) ==
    Btype(node) = BNODE_NODE =>
        \A i \in 0..(Nkeys(node) - 1) :
            /\ GetPtrOk(node, i) /\ GetKeyOk(node, i)
            /\ StGetOk(st, GetPtr(node, i))
            /\ GetKeyOk(StGet(st, GetPtr(node, i)), 0)
            /\ GetKey(node, i) = GetKey(StGet(st, GetPtr(node, i)), 0)

----------------------------------------------------------------------------
(* Properties of the tree, under SpecTree.                                 *)

\* C1: every key that was inserted and not deleted afterwards is found by a
\* lookup, with the value of the most recent Insert of that key.
C1_LookupLatest ==
    \A k \in DOMAIN issued :
        CGet(k) = [status |-> "found", val |-> ValBytes(issued[k])]

\* C2: once Delete(K) has returned true, a lookup of K reports not-found.
C2_DeleteThenNotFound ==
    (last.op = "del" /\ last.ret) => CGet(last.key).status = "notfound"

\* C8: every node an operation hands to tree.New has Nbytes <= 4096.
C8_HandedFits ==
    \A i \in DOMAIN handed : handed[i] <= BTREE_PAGE_SIZE

----------------------------------------------------------------------------
(* Properties of the KV store, under SpecKV.                               *)

\* What a lookup of k returns in a tree holding exactly the pairs of kv.
Expected(kv, k) ==
    IF k \in DOMAIN kv THEN [status |-> "found", val |-> ValBytes(kv[k])]
    ELSE [status |-> "notfound", val |-> << >>]

\* The index of the master-page write among the steps of the commit.
MasterAt == CHOOSE i \in DOMAIN FlushPagesW : FlushPagesW[i] = "MasterStore"

\* C3: after a crash at a step of a commit that precedes the master-page
\* write, a reopen succeeds and yields the previously committed tree.
C3_CrashSafe ==
    (klast.op = "open" /\ klast.prev = "crash" /\ klast.at \in 1..MasterAt) =>
        /\ klast.ok
        /\ \A k \in Keys : KVGet(k) = Expected(kcommitted.kv, k)

\* C4: in a commit the master page is written only after the buffered pages
\* were copied into the mapping and an fsync followed the copy, and an fsync
\* follows the master-page write before the commit returns.
C4_MasterAfterSync ==
    /\ ("copy" \in Range(klog) /\ "flushed" \notin Range(klog)) =>
          \A ptr \in DOMAIN db.updates :
             db.updates[ptr] # NilPage =>
                SubSeq(PageGetMapped(db, disk, ptr).Data, 1, BTREE_PAGE_SIZE)
                  = SubSeq(UnpackBytes(db.updates[ptr].runs), 1, BTREE_PAGE_SIZE)
    /\ \A i \in DOMAIN klog :
          klog[i] = "MasterStore" =>
             /\ \E j \in 1..(i - 1) :
                   klog[j] = "Sync" /\ \E k \in 1..(j - 1) : klog[k] = "copy"
             /\ klast.op = "commit" => \E j \in (i + 1)..Len(klog) : klog[j] = "Sync"

\* C4 witness: a commit that wrote a new tree page has returned.
C4_Witness ==
    /\ klast.op = "commit" /\ db.root # 0 /\ kref # NoMap
    /\ "MasterStore" \in Range(klog)

\* C5: after committed updates, closing and reopening succeeds and MasterLoad
\* restores the committed root and page count.
C5_ReopenRestores ==
    (klast.op = "open" /\ klast.prev = "close") =>
        /\ klast.ok
        /\ db.root = kcommitted.root
        /\ db.flushed = kcommitted.used

\* The pages in use: those of the tree, then those of the free list.
LivePages == TreePtrs(KVStore, db.root) \o FreeListPtrs(KVStore, db.head, StFuel(KVStore))

\* C6: when a commit has returned, the page count is one more than the largest
\* live page number (page 0 is the master page), and the counters of reused
\* and appended pages count nothing of the finished commit.
C6_PageCount ==
    klast.op = "commit" =>
        /\ \A p \in Range(LivePages) \cup {0} : p + 1 <= db.flushed
        /\ \E p \in Range(LivePages) \cup {0} : p + 1 = db.flushed
        /\ db.nfree = 0
        /\ db.nappend = 0

\* C7: when a commit has returned, no page number occurs twice among the tree
\* pages, the free-list nodes, the free-list entries and the keys of the
\* update buffer (the keys of a map are distinct among themselves).
C7_NoPageTwice ==
    klast.op = "commit" =>
        /\ Cardinality(Range(LivePages)) = Len(LivePages)
        /\ Range(LivePages) \cap DOMAIN db.updates = {}

\* C7 witness: a commit has returned and the tree has a page.
C7_Witness == klast.op = "commit" /\ db.fp /\ db.root # 0 /\ Len(LivePages) >= 1

----------------------------------------------------------------------------
(* The contents of a tree, page numbers left out.                          *)

\* The (key, value) entries of a node, by index.
NodeEntries(node) ==
    [i \in 1..Nkeys(node) |->
        IF GetKeyOk(node, i - 1) /\ GetValOk(node, i - 1)
        THEN << GetKey(node, i - 1), GetVal(node, i - 1) >>
        ELSE << "unreadable" >>]

\* The structure below ptr: the node's type and entries and, for an internal
\* node, the structures of its children in order.
RECURSIVE Shape(_, _, _)
Shape(st, ptr, fuel) ==
    IF fuel = 0 \/ ~StGetOk(st, ptr) THEN [btype |-> 0, entries |-> << >>, kids |-> << >>]
    ELSE [btype |-> Btype(StGet(st, ptr)),
          entries |-> NodeEntries(StGet(st, ptr)),
          kids |-> IF Btype(StGet(st, ptr)) = BNODE_NODE
                   THEN [i \in 1..Nkeys(StGet(st, ptr)) |->
                            Shape(st, GetPtr(StGet(st, ptr), i - 1), fuel - 1)]
                   ELSE << >>]

TreeShape(st, ptr) ==
    IF ptr = 0 THEN [btype |-> 0, entries |-> << >>, kids |-> << >>]
    ELSE Shape(st, ptr, StFuel(st))

\* C11: an Insert(k, v) that directly follows an Insert(k, v) of the same pair
\* leaves the node structure and the entries of every node as they were.
C11_UpsertIdempotent ==
    [][ ( /\ ~panicked /\ ~panicked'
          /\ last.op = "add" /\ last'.op = "add" /\ last'.key = last.key
          /\ nops' = nops + 1
          /\ issued' = issued )
        => TreeShape([CStore EXCEPT !.pages = pages'], root') = TreeShape(CStore, root)
      ]_vars

----------------------------------------------------------------------------
(* Iterators and range scans (btree.go:22-28, 70-89, 525-636).  An iterator *)
(* is [path, pos, panic]: the nodes from the root to a leaf, the index in   *)
(* each, and whether a call on it has panicked.                             *)

CMP_GE == 3
CMP_GT == 2
CMP_LT == -2
CMP_LE == -3

\* cmpOK: key cmp ref
cmpOK(key, cmp, bound) ==
    CASE cmp = CMP_GE -> Compare(key, bound) >= 0
      [] cmp = CMP_GT -> Compare(key, bound) > 0
      [] cmp = CMP_LT -> Compare(key, bound) < 0
      [] cmp = CMP_LE -> Compare(key, bound) <= 0

NewIter == [path |-> << >>, pos |-> << >>, panic |-> FALSE]

IterPanic(it) == [it EXCEPT !.panic = TRUE]

\* BIter.Valid
IterValid(it) == Len(it.path) > 0

\* BIter.Deref: the key of the current pair.
IterKeyOk(it) == IterValid(it) /\ GetKeyOk(it.path[Len(it.path)], it.pos[Len(it.pos)])
IterKey(it) == GetKey(it.path[Len(it.path)], it.pos[Len(it.pos)])

\* The end of iterPrev at `level`: "update the kid node".
PrevKid(st, it, level) ==
    IF it.panic \/ ~(level + 1 < Len(it.pos)) THEN it
    ELSE IF ~GetPtrOk(it.path[level + 1], it.pos[level + 1])
            \/ ~StGetOk(st, GetPtr(it.path[level + 1], it.pos[level + 1]))
    THEN IterPanic(it)
    ELSE [it EXCEPT
            !.path[level + 2] = StGet(st, GetPtr(it.path[level + 1], it.pos[level + 1])),
            !.pos[level + 2] =
                u16(Nkeys(StGet(st, GetPtr(it.path[level + 1], it.pos[level + 1]))) - 1)]

RECURSIVE iterPrev(_, _, _)
iterPrev(st, it, level) ==
    IF it.panic THEN it
    ELSE IF level < 0 \/ level >= Len(it.pos) THEN IterPanic(it)
    ELSE IF it.pos[level + 1] > 0
    THEN PrevKid(st, [it EXCEPT !.pos[level + 1] = @ - 1], level)
    ELSE IF level > 0 THEN PrevKid(st, iterPrev(st, it, level - 1), level)
    ELSE it

\* iterNext has no statements.
iterNext(st, it, level) == it

\* BIter.Prev and BIter.Next
IterPrev(st, it) == iterPrev(st, it, Len(it.path) - 1)
IterNext(st, it) == iterNext(st, it, Len(it.path) + 1)

\* The loop of BTree.SeekLE from page ptr on, it the iterator built so far.
RECURSIVE SeekPath(_, _, _, _, _)
SeekPath(st, ptr, key, it, fuel) ==
    IF ptr = 0 THEN it
    ELSE IF fuel = 0 \/ ~StGetOk(st, ptr) \/ ~NodeLookupLEOk(StGet(st, ptr), key)
    THEN IterPanic(it)
    ELSE IF Btype(StGet(st, ptr)) # BNODE_NODE
    THEN [it EXCEPT !.path = Append(@, StGet(st, ptr)),
                    !.pos = Append(@, NodeLookupLE(StGet(st, ptr), key))]
    ELSE IF ~GetPtrOk(StGet(st, ptr), NodeLookupLE(StGet(st, ptr), key)) THEN IterPanic(it)
    ELSE SeekPath(st, GetPtr(StGet(st, ptr), NodeLookupLE(StGet(st, ptr), key)), key,
                  [it EXCEPT !.path = Append(@, StGet(st, ptr)),
                             !.pos = Append(@, NodeLookupLE(StGet(st, ptr), key))],
                  fuel - 1)

\* BTree.Seek from its test on, iter the result of SeekLE.
SeekAdjust(st, iter, key, cmp) ==
    IF iter.panic \/ cmp = CMP_LE \/ ~IterValid(iter) THEN iter
    ELSE IF ~IterKeyOk(iter) THEN IterPanic(iter)
    ELSE IF cmpOK(IterKey(iter), cmp, key) THEN iter
    ELSE IF cmp > 0 THEN IterNext(st, iter)
    ELSE IterPrev(st, iter)

\* BTree.Seek
Seek(st, ptr, key, cmp) == SeekAdjust(st, SeekPath(st, ptr, key, NewIter, StFuel(st)), key, cmp)

\* Scanner.Valid on a scanner [Cmp1, Cmp2, keyEnd, iter]; Deref may panic.
ScannerValidOk(scanner) == ~scanner.iter.panic /\ (IterValid(scanner.iter) => IterKeyOk(scanner.iter))
ScannerValid(scanner) ==
    IterValid(scanner.iter) /\ cmpOK(IterKey(scanner.iter), scanner.Cmp2, scanner.keyEnd)

\* Scanner.Next: the iterator after the call.
ScannerNext(st, scanner) ==
    IF ~ScannerValidOk(scanner) \/ ~ScannerValid(scanner) THEN IterPanic(scanner.iter)
    ELSE IF scanner.Cmp1 > 0 THEN IterNext(st, scanner.iter)
    ELSE IterPrev(st, scanner.iter)

----------------------------------------------------------------------------
(* A range scan over the harness's tree: the tree is built by add and del,  *)
(* then one scan is opened with Seek and read to its end by the loop        *)
(*   for sc.Valid() { key := sc.iter.Deref(); sc.Next() }                   *)

\* The largest number of keys a scan is let to yield.
MaxYield == 4

PackIter(it) == [it EXCEPT !.path = [i \in DOMAIN @ |-> Pack(@[i])]]
UnpackIter(it) == [it EXCEPT !.path = [i \in DOMAIN @ |-> Unpack(@[i])]]

\* The scanner of the state, its iterator unpacked.
Scanner == [sc EXCEPT !.iter = UnpackIter(@)]

\* DbScan from its sanity check on, over raw keys: the range is accepted when
\* Cmp1 and Cmp2 have opposite signs; the iterator comes from tree.Seek.
ScanStart(cmp1, cmp2, key1, key2) ==
    /\ ~panicked /\ scstate = "none"
    /\ (cmp1 > 0 /\ cmp2 < 0) \/ (cmp2 > 0 /\ cmp1 < 0)
    /\ \E iter \in { Seek(CStore, root, key1, cmp1) } :
           /\ sc' = [Cmp1 |-> cmp1, Cmp2 |-> cmp2, Key1 |-> key1, keyEnd |-> key2,
                     iter |-> PackIter(iter)]
           /\ scstate' = IF iter.panic THEN "panic" ELSE "open"
    /\ scout' = << >>
    /\ UNCHANGED << treeVars, kvVars, tblVars, fnVars >>

\* One round of the reading loop.
ScanStep ==
    /\ scstate = "open" /\ Len(scout) < MaxYield
    /\ IF ~ScannerValidOk(Scanner)
       THEN scstate' = "panic" /\ UNCHANGED << sc, scout >>
       ELSE IF ~ScannerValid(Scanner)
       THEN scstate' = "done" /\ UNCHANGED << sc, scout >>
       ELSE \E iter \in { ScannerNext(CStore, Scanner) } :
               /\ sc' = [sc EXCEPT !.iter = PackIter(iter)]
               /\ scstate' = IF iter.panic THEN "panic" ELSE "open"
               /\ scout' = Append(scout, IterKey(Scanner.iter))
    /\ UNCHANGED << treeVars, kvVars, tblVars, fnVars >>

\* The value the scanned trees are built with.
ScanVal == [len |-> 1, fill |-> 120]

ScanNext ==
    \/ scstate = "none" /\ \E key \in Keys : Add(key, ScanVal) \/ Del(key)
    \/ \E cmp1 \in {CMP_GE, CMP_GT, CMP_LE, CMP_LT}, cmp2 \in {CMP_GE, CMP_GT, CMP_LE, CMP_LT},
          key1 \in Keys, key2 \in Keys : ScanStart(cmp1, cmp2, key1, key2)
    \/ ScanStep

SpecScan == Init /\ [][ScanNext]_vars

\* The keys of the leaves below ptr, in the order of the leaves and of the
\* entries in each.
RECURSIVE LeafKeys(_, _, _)
RECURSIVE LeafKeysOfKids(_, _, _, _)
LeafKeys(st, ptr, fuel) ==
    IF fuel = 0 \/ ~StGetOk(st, ptr) THEN << >>
    ELSE IF Btype(StGet(st, ptr)) = BNODE_NODE
    THEN LeafKeysOfKids(st, StGet(st, ptr), 0, fuel - 1)
    ELSE [i \in 1..Nkeys(StGet(st, ptr)) |-> NodeEntries(StGet(st, ptr))[i][1]]

LeafKeysOfKids(st, node, i, fuel) ==
    IF i >= Nkeys(node) \/ ~GetPtrOk(node, i) THEN << >>
    ELSE LeafKeys(st, GetPtr(node, i), fuel) \o LeafKeysOfKids(st, node, i + 1, fuel)

\* The stored key set: the keys of the tree without the empty sentinel key.
StoredKeys == IF root = 0 THEN {} ELSE Range(LeafKeys(CStore, root, StFuel(CStore))) \ { << >> }

\* The keys of S in ascending order.
RECURSIVE Ascending(_)
Ascending(S) ==
    IF S = {} THEN << >>
    ELSE << CHOOSE k \in S : \A j \in S : Compare(k, j) <= 0 >>
         \o Ascending(S \ { CHOOSE k \in S : \A j \in S : Compare(k, j) <= 0 })

Reverse(seq) == [i \in 1..Len(seq) |-> seq[Len(seq) + 1 - i]]

\* The stored keys inside the range of the scanner.
InRange == { k \in StoredKeys : cmpOK(k, sc.Cmp1, sc.Key1) /\ cmpOK(k, sc.Cmp2, sc.keyEnd) }

IsPrefix(a, b) == Len(a) <= Len(b) /\ a = SubSeq(b, 1, Len(a))

\* C12: a forward scan yields the stored keys inside its range, each once, in
\* ascending order, and Valid() turns false when they are exhausted.
C12_ForwardScan ==
    (scstate # "none" /\ sc.Cmp1 > 0) =>
        /\ scstate # "panic"
        /\ IsPrefix(scout, Ascending(InRange))
        /\ scstate = "done" => scout = Ascending(InRange)

----------------------------------------------------------------------------
(* Records, table definitions and their encodings (part_003:13-91,          *)
(* 308-427).  Strings are byte sequences, column names TLA+ strings.        *)

TYPE_ERROR == 0
TYPE_BYTES == 1
TYPE_INT64 == 2

MODE_UPSERT == 0
MODE_UPDATE_ONLY == 1
MODE_INSERT_ONLY == 2

TABLE_PREFIX_MIN == 3

INDEX_ADD == 1
INDEX_DEL == 2

\* The zero Value, and a TYPE_BYTES Value.
NoValue == [Type |-> TYPE_ERROR, I64 |-> 0, Str |-> << >>]
BytesValue(str) == [Type |-> TYPE_BYTES, I64 |-> 0, Str |-> str]

\* A *Record is [nil |-> TRUE] or a record with its Cols and Vals.
NilRecord == [nil |-> TRUE]
NewRecord == [nil |-> FALSE, Cols |-> << >>, Vals |-> << >>]

\* Record.AddStr and Record.Get have no body but "return nil".
AddStr(rec, key, val) == NilRecord
RecordGet(rec, key) == "nil"

TDEF_META ==
    [Name |-> << 64, 109, 101, 116, 97 >>, Types |-> << TYPE_BYTES, TYPE_BYTES >>,
     Cols |-> << "key", "val" >>, Pkeys |-> 1, Indexes |-> << >>,
     Prefix |-> 1, IndexPrefixes |-> << >>]

TDEF_TABLE ==
    [Name |-> << 64, 116, 97, 98, 108, 101 >>, Types |-> << TYPE_BYTES, TYPE_BYTES >>,
     Cols |-> << "name", "def" >>, Pkeys |-> 1, Indexes |-> << >>,
     Prefix |-> 2, IndexPrefixes |-> << >>]

\* indexOf: the Go index of the first occurrence of str in slice, or -1.
indexOf(slice, str) ==
    IF \E i \in DOMAIN slice : slice[i] = str
    THEN (CHOOSE i \in DOMAIN slice : slice[i] = str /\ \A j \in 1..(i - 1) : slice[j] # str) - 1
    ELSE -1

\* checkRecord: [values, err]; a column named twice keeps its last value, a
\* column of the table that the record does not name keeps the zero Value.
checkRecord(tdef, rec, n) ==
    LET given(c) == {i \in DOMAIN rec.Cols : rec.Cols[i] = c}
        values == [j \in DOMAIN tdef.Cols |->
                     IF given(tdef.Cols[j]) = {} THEN NoValue
                     ELSE rec.Vals[CHOOSE i \in given(tdef.Cols[j]) :
                                       \A k \in given(tdef.Cols[j]) : k <= i]]
    IN  IF Len(rec.Cols) # Len(rec.Vals)
        THEN [values |-> << >>, err |-> "columns and values differ in number"]
        ELSE IF Len(rec.Cols) < n
        THEN [values |-> << >>, err |-> "too few columns"]
        ELSE IF \E i \in DOMAIN rec.Cols : indexOf(tdef.Cols, rec.Cols[i]) < 0
        THEN [values |-> << >>, err |-> "column not found"]
        ELSE [values |-> values, err |-> ""]

\* binary.BigEndian.PutUint32 of a value below 2^32, given as an integer that
\* may be negative (two's complement).
BigEndian32(v) ==
    << (v \div 16777216) % 256, (v \div 65536) % 256, (v \div 256) % 256, v % 256 >>

\* The loop of EscapeString over in[i..], writing out from Go index pos on:
\* [out, panic]; a write past the end of out panics.
RECURSIVE EscapeLoop(_, _, _, _)
EscapeLoop(out, pos, in, i) ==
    IF i > Len(in) THEN [out |-> out, panic |-> FALSE]
    ELSE IF in[i] <= 1
    THEN IF pos + 1 >= Len(out) THEN [out |-> out, panic |-> TRUE]
         ELSE EscapeLoop([out EXCEPT ![pos + 1] = 1, ![pos + 2] = in[i] + 1],
                         pos + 2, in, i + 1)
    ELSE IF pos >= Len(out) THEN [out |-> out, panic |-> TRUE]
         ELSE EscapeLoop([out EXCEPT ![pos + 1] = in[i]], pos + 1, in, i + 1)

\* EscapeString: [out, panic].
EscapeString(in) ==
    LET zeros == Cardinality({i \in DOMAIN in : in[i] = 0})
        ones == Cardinality({i \in DOMAIN in : in[i] = 1})
        out == Zeros(Len(in) + zeros + ones)
    IN  IF zeros + ones = 0 THEN [out |-> in, panic |-> FALSE]
        ELSE IF Len(in) > 0 /\ in[1] >= 254
        THEN EscapeLoop([out EXCEPT ![1] = 254, ![2] = in[1]], 2, in, 2)
        ELSE EscapeLoop(out, 0, in, 1)

\* An encoding of I64 without the addition of 1 << 63.
Int64Bytes_NoBias(v) ==
    (IF v >= 0 THEN << 0, 0, 0, 0 >> ELSE << 255, 255, 255, 255 >>) \o BigEndian32(v)

\* binary.BigEndian.PutUint64(buf, uint64(v) + (1 << 63)).  An I64 of the
\* model lies within 32 bits; its 64-bit two's complement plus 2^63, modulo
\* 2^64, is the sign word with the top bit flipped, followed by the low word.
Int64Bytes(v) ==
    (IF v >= 0 THEN << 128, 0, 0, 0 >> ELSE << 127, 255, 255, 255 >>) \o BigEndian32(v)

\* EncodeValues: [out, panic].
RECURSIVE EncodeValues(_, _)
EncodeValues(out, vals) ==
    IF vals = << >> THEN [out |-> out, panic |-> FALSE]
    ELSE LET v == Head(vals)
             esc == EscapeString(v.Str)
         IN  CASE v.Type = TYPE_INT64 ->
                    EncodeValues(out \o Int64Bytes(v.I64), Tail(vals))
               [] v.Type = TYPE_BYTES ->
                    IF esc.panic THEN [out |-> out, panic |-> TRUE]
                    ELSE EncodeValues(out \o esc.out \o << 0 >>, Tail(vals))
               [] OTHER -> [out |-> out, panic |-> TRUE]

\* encodeKey: [out, panic].
encodeKey(out, prefix, vals) == EncodeValues(out \o BigEndian32(prefix), vals)

\* CheckIndexKeys: [index, err, panic].
CheckIndexKeys(tdef, index) ==
    LET pk == SubSeq(tdef.Cols, 1, tdef.Pkeys)
        more == SelectSeq(pk, LAMBDA c : \A i \in DOMAIN index : index[i] # c)
    IN  IF \E i, j \in DOMAIN index : i # j /\ index[i] = index[j]
        THEN [index |-> << >>, err |-> "duplicate index column", panic |-> FALSE]
        ELSE [index |-> index \o more, err |-> "",
              panic |-> ~(Len(index \o more) < Len(tdef.Cols))]

\* tableDefCheck: [tdef, err, panic].
tableDefCheck(tdef) ==
    LET chk == [i \in DOMAIN tdef.Indexes |-> CheckIndexKeys(tdef, tdef.Indexes[i])]
        bad == {i \in DOMAIN chk : chk[i].err # "" \/ chk[i].panic}
        first == CHOOSE i \in bad : \A j \in bad : i <= j
    IN  IF tdef.Name = << >> THEN [tdef |-> tdef, err |-> "table name is empty", panic |-> FALSE]
        ELSE IF Len(tdef.Cols) = 0
        THEN [tdef |-> tdef, err |-> "table columns are empty", panic |-> FALSE]
        ELSE IF Len(tdef.Types) # Len(tdef.Cols)
        THEN [tdef |-> tdef, err |-> "types and columns differ in number", panic |-> FALSE]
        ELSE IF bad # {}
        THEN [tdef |-> [tdef EXCEPT !.Indexes = [i \in DOMAIN chk |->
                                   IF i < first THEN chk[i].index ELSE @[i]]],
              err |-> chk[first].err, panic |-> chk[first].panic]
        ELSE [tdef |-> [tdef EXCEPT !.Indexes = [i \in DOMAIN chk |-> chk[i].index]],
              err |-> "", panic |-> FALSE]

----------------------------------------------------------------------------
(* The KV calls of the table layer (mmap_windows.go:249-275) and the table   *)
(* operations (part_003:134-305, btree.go:698-720).  These work on           *)
(* m = [db, disk] and return it with what the call returns; panic tells      *)
(* that the call did not return.                                             *)

StoreOf(m) == [kind |-> "KV", db |-> m.db, disk |-> m.disk, panic |-> FALSE, handed |-> << >>,
            wild |-> FALSE, freed |-> << >>, made |-> << >>]

\* FlushPagesW from its step i on: [m, panic]; r is what step i returned.
RECURSIVE FlushFrom(_, _)
FlushNext(r, i) == IF r.panic THEN r ELSE FlushFrom(r.m, i + 1)
FlushFrom(m, i) ==
    IF i > Len(FlushPagesW) THEN [m |-> m, panic |-> FALSE]
    ELSE FlushNext(FlushStep(FlushPagesW[i], m), i)

\* KV.GetW has no body but "return nil, false".
KVGetW(m, key) == [val |-> << >>, ok |-> FALSE]

\* KV.UpdateW has no body but "return false, nil"; req is left as it was.
KVUpdateW(m, req) == [m |-> m, req |-> req, added |-> FALSE, err |-> ""]

\* KV.DelW: [m, deleted, panic]; r is what tree.Delete returned, f what
\* FlushPagesW did.
DelWFlushed(ret, f) == [m |-> f.m, deleted |-> ret, panic |-> f.panic]
DelWDeleted(m, r) ==
    IF r.st.panic THEN [m |-> m, deleted |-> FALSE, panic |-> TRUE]
    ELSE DelWFlushed(r.ret, FlushFrom([db |-> [r.st.db EXCEPT !.root = r.root],
                                       disk |-> m.disk], 1))
KVDelW(m, key) == DelWDeleted(m, Delete(StoreOf(m), m.db.root, key))

\* DbGet: [ok, panic]; rec is a *Record, dereferenced at once.
DbGet(m, tdef, rec) ==
    IF rec.nil THEN [ok |-> FALSE, err |-> "", panic |-> TRUE]
    ELSE LET c == checkRecord(tdef, rec, tdef.Pkeys)
             key == encodeKey(<< >>, tdef.Prefix, SubSeq(c.values, 1, tdef.Pkeys))
         IN  IF c.err # "" THEN [ok |-> FALSE, err |-> c.err, panic |-> FALSE]
             ELSE IF key.panic THEN [ok |-> FALSE, err |-> "", panic |-> TRUE]
             ELSE [ok |-> KVGetW(m, key.out).ok, err |-> "", panic |-> FALSE]

\* indexOP over a table whose indexes name at least one column each, as they
\* do after CheckIndexKeys: the first rec.Get(c) is nil and is dereferenced.
indexOP(m, tdef, rec, op) ==
    [m |-> m, panic |-> \E i \in DOMAIN tdef.Indexes :
                            \E j \in DOMAIN tdef.Indexes[i] :
                                RecordGet(rec, tdef.Indexes[i][j]) = "nil"]

\* DbUpdate: [m, added, err, panic].
DbUpdate(m, tdef, rec, mode) ==
    LET c == checkRecord(tdef, rec, Len(tdef.Cols))
        key == encodeKey(<< >>, tdef.Prefix, SubSeq(c.values, 1, tdef.Pkeys))
        val == EncodeValues(<< >>, SubSeq(c.values, tdef.Pkeys + 1, Len(c.values)))
        u == KVUpdateW(m, [Key |-> key.out, Val |-> val.out, Mode |-> mode,
                           Added |-> FALSE, Updated |-> FALSE, Old |-> << >>])
        old == IF u.req.Updated /\ ~u.req.Added
               THEN indexOP(u.m, tdef, [Cols |-> tdef.Cols, Vals |-> c.values], INDEX_DEL)
               ELSE [m |-> u.m, panic |-> FALSE]
        new == indexOP(old.m, tdef, rec, INDEX_ADD)
    IN  IF c.err # "" THEN [m |-> m, added |-> FALSE, err |-> c.err, panic |-> FALSE]
        ELSE IF key.panic \/ val.panic
        THEN [m |-> m, added |-> FALSE, err |-> "", panic |-> TRUE]
        ELSE IF u.err # "" \/ ~u.req.Updated \/ Len(tdef.Indexes) = 0
        THEN [m |-> u.m, added |-> u.added, err |-> u.err, panic |-> FALSE]
        ELSE [m |-> new.m, added |-> u.added, err |-> "", panic |-> old.panic \/ new.panic]

\* DbDelete: [m, deleted, err, panic]; d is what DelW returned.
DbDeleteIndex(m, tdef, rec, d) ==
    IF d.panic THEN [m |-> m, deleted |-> FALSE, err |-> "", panic |-> TRUE]
    ELSE IF ~d.deleted \/ Len(tdef.Indexes) = 0
    THEN [m |-> d.m, deleted |-> d.deleted, err |-> "", panic |-> FALSE]
    ELSE [m |-> d.m, deleted |-> TRUE, err |-> "",
          panic |-> indexOP(d.m, tdef, rec, INDEX_DEL).panic]

DbDelete(m, tdef, rec) ==
    LET c == checkRecord(tdef, rec, tdef.Pkeys)
        key == encodeKey(<< >>, tdef.Prefix, SubSeq(c.values, 1, tdef.Pkeys))
    IN  IF c.err # "" THEN [m |-> m, deleted |-> FALSE, err |-> c.err, panic |-> FALSE]
        ELSE IF key.panic THEN [m |-> m, deleted |-> FALSE, err |-> "", panic |-> TRUE]
        ELSE DbDeleteIndex(m, tdef, rec, KVDelW(m, key.out))

\* The prefixes TableNew gives the indexes of tdef.
IndexPrefixesOf(tdef) == [i \in DOMAIN tdef.Indexes |-> tdef.Prefix + 1 + (i - 1)]

\* DB.TableNew: [m, tdef, err, panic].  Past the lookup of @table it reads
\* next_prefix through a second nil *Record, so no path returns nil.
TableNew(m, tdef0) ==
    LET chk == tableDefCheck(tdef0)
        table == AddStr(NewRecord, "name", chk.tdef.Name)
        g == DbGet(m, TDEF_TABLE, table)
        tdef1 == [chk.tdef EXCEPT !.Prefix = TABLE_PREFIX_MIN]
        meta == AddStr(NewRecord, "key", << 110, 101, 120, 116, 95, 112, 114, 101, 102, 105, 120 >>)
        g2 == DbGet(m, TDEF_META, meta)
        tdef2 == [tdef1 EXCEPT !.IndexPrefixes = @ \o IndexPrefixesOf(tdef1)]
    IN  IF chk.err # "" \/ chk.panic
        THEN [m |-> m, tdef |-> chk.tdef, err |-> chk.err, panic |-> chk.panic]
        ELSE IF g.panic \/ g.err # ""
        THEN [m |-> m, tdef |-> chk.tdef, err |-> "", panic |-> TRUE]
        ELSE IF g.ok THEN [m |-> m, tdef |-> chk.tdef, err |-> "table exists", panic |-> FALSE]
        ELSE IF chk.tdef.Prefix # 0 \/ g2.panic \/ g2.err # "" \/ g2.ok
        THEN [m |-> m, tdef |-> tdef1, err |-> "", panic |-> TRUE]
        ELSE [m |-> m, tdef |-> tdef2, err |-> "",
              panic |-> RecordGet(meta, "val") = "nil"]

----------------------------------------------------------------------------
(* A process using the table layer: it opens the store, then calls DbUpdate *)
(* and DbDelete on a table with one secondary index, TableNew, and SetW on  *)
(* a row of @table.  A panic ends the process and leaves the file as it is. *)

MaxDBOps == 3

\* The table of the rows: columns k (primary key), v, w and an index on v,
\* with the prefixes and the index columns a TableNew would give it.
UserTable ==
    [Name |-> << 116 >>, Types |-> << TYPE_BYTES, TYPE_BYTES, TYPE_BYTES >>,
     Cols |-> << "k", "v", "w" >>, Pkeys |-> 1, Indexes |-> << << "v", "k" >> >>,
     Prefix |-> TABLE_PREFIX_MIN, IndexPrefixes |-> << TABLE_PREFIX_MIN + 1 >>]

\* Inputs: full rows, primary keys alone, and a row that lacks a column.
Row(k, v) ==
    [Cols |-> << "k", "v", "w" >>, Vals |-> << BytesValue(k), BytesValue(v), BytesValue(<< 119 >>) >>]
PKey(k) == [Cols |-> << "k" >>, Vals |-> << BytesValue(k) >>]
Rows == { Row(k, v) : k \in { << 49 >>, << 50 >> }, v \in { << 120 >>, << 121 >> } }
PKeys == { PKey(k) : k \in { << 49 >>, << 50 >> } }
Modes == { MODE_UPSERT, MODE_UPDATE_ONLY, MODE_INSERT_ONLY }

\* Inputs of TableNew: names "t", "u" and the empty name; no index, an index
\* on v, an index that names v twice.
TableDefs ==
    { [Name |-> name, Types |-> << TYPE_BYTES, TYPE_BYTES, TYPE_BYTES >>,
       Cols |-> << "k", "v", "w" >>, Pkeys |-> 1, Indexes |-> indexes,
       Prefix |-> 0, IndexPrefixes |-> << >>] :
      name \in { << 116 >>, << 117 >>, << >> },
      indexes \in { << >>, << << "v" >> >>, << << "v", "v" >> >> } }

\* The key of the row of @table for name, and a definition: "{}".
TableKey(name) == encodeKey(<< >>, TDEF_TABLE.Prefix, << BytesValue(name) >>).out
TableDefBytes == << 123, 125 >>

\* The process ends in a panic of a table operation.
TableGone == db' = NewKV /\ UNCHANGED << disk, kpc, klog, kref, kcommitted, klast, kopens, kops >>

\* The process goes on with the store as the operation left it.
TableOn(m) ==
    /\ db' = m.db
    /\ disk' = m.disk
    /\ UNCHANGED << kpc, klog, kref, kcommitted, klast, kopens, kops >>

\* The rows after a Set that returned nil, by the mode.
RowsAfterSet(rec, mode) ==
    LET k == rec.Vals[1].Str
    IN  IF \/ mode = MODE_UPSERT
           \/ mode = MODE_UPDATE_ONLY /\ k \in DOMAIN trows
           \/ mode = MODE_INSERT_ONLY /\ k \notin DOMAIN trows
        THEN MapPut(trows, k, rec)
        ELSE trows

\* DbUpdate(db, UserTable, rec, mode), as DB.Set calls it.
DBSet(rec, mode) ==
    /\ db.fp /\ kpc = 0 /\ tcnt < MaxDBOps
    /\ \E r \in { DbUpdate([db |-> db, disk |-> disk], UserTable, rec, mode) } :
           /\ IF r.panic THEN TableGone ELSE TableOn(r.m)
           /\ trows' = IF r.panic \/ r.err # "" THEN trows ELSE RowsAfterSet(rec, mode)
           /\ tlast' = [op |-> "Set", name |-> rec.Vals[1].Str, valid |-> r.err = "",
                        stored |-> FALSE, added |-> r.added, err |-> r.err,
                        panic |-> r.panic, same |-> ~r.panic /\ r.m = [db |-> db, disk |-> disk]]
    /\ tcnt' = tcnt + 1
    /\ UNCHANGED << ttables, treeVars, scanVars, fnVars >>

\* DbDelete(db, UserTable, rec), as DB.Delete calls it.
DBDelete(rec) ==
    /\ db.fp /\ kpc = 0 /\ tcnt < MaxDBOps
    /\ \E r \in { DbDelete([db |-> db, disk |-> disk], UserTable, rec) } :
           /\ IF r.panic THEN TableGone ELSE TableOn(r.m)
           /\ trows' = IF r.panic \/ r.err # "" THEN trows ELSE MapDel(trows, rec.Vals[1].Str)
           /\ tlast' = [op |-> "Delete", name |-> rec.Vals[1].Str, valid |-> r.err = "",
                        stored |-> FALSE, added |-> r.deleted, err |-> r.err,
                        panic |-> r.panic, same |-> ~r.panic /\ r.m = [db |-> db, disk |-> disk]]
    /\ tcnt' = tcnt + 1
    /\ UNCHANGED << ttables, treeVars, scanVars, fnVars >>

\* db.TableNew(tdef).  valid: the definition passes tableDefCheck; stored:
\* the tree holds a row of @table for its name.
DBTableNew(tdef) ==
    /\ db.fp /\ kpc = 0 /\ tcnt < MaxDBOps
    /\ \E r \in { TableNew([db |-> db, disk |-> disk], tdef) } :
           /\ IF r.panic THEN TableGone ELSE TableOn(r.m)
           /\ ttables' = IF r.panic \/ r.err # "" THEN ttables ELSE Append(ttables, r.tdef)
           /\ tlast' = [op |-> "TableNew", name |-> tdef.Name,
                        valid |-> tableDefCheck(tdef).err = "" /\ ~tableDefCheck(tdef).panic,
                        stored |-> TreeGet(KVStore, db.root, TableKey(tdef.Name)).status = "found",
                        added |-> FALSE, err |-> r.err,
                        panic |-> r.panic, same |-> ~r.panic /\ r.m = [db |-> db, disk |-> disk]]
    /\ tcnt' = tcnt + 1
    /\ UNCHANGED << trows, treeVars, scanVars, fnVars >>

\* db.kv.SetW(TableKey(name), TableDefBytes) on a full disk: the tree takes the
\* row, FlushPagesW returns the error of fp.Truncate in extendFileWindows.
SetWNoSpace(name) ==
    /\ db.fp /\ kpc = 0 /\ tcnt < MaxDBOps
    /\ \E r \in { Insert(KVStore, db.root, TableKey(name), TableDefBytes) } :
           \E d \in { [r.st.db EXCEPT !.root = r.root] } :
               /\ d.file \div BTREE_PAGE_SIZE < d.flushed + Cardinality(DOMAIN d.updates)
               /\ IF r.st.panic \/ ~FreeListUpdateOk(d)
                  THEN TableGone
                  ELSE TableOn([db |-> d, disk |-> disk])
               /\ tlast' = [op |-> "SetW", name |-> name, valid |-> TRUE, stored |-> FALSE,
                            added |-> FALSE, err |-> "truncate", same |-> FALSE,
                            panic |-> r.st.panic \/ ~FreeListUpdateOk(d)]
    /\ tcnt' = tcnt + 1
    /\ UNCHANGED << trows, ttables, treeVars, scanVars, fnVars >>

DBNext ==
    \/ KVOpen
    \/ \E rec \in Rows \cup PKeys, mode \in Modes : DBSet(rec, mode)
    \/ \E rec \in Rows \cup PKeys : DBDelete(rec)
    \/ \E tdef \in TableDefs : DBTableNew(tdef)
    \/ \E name \in { << 116 >> } : SetWNoSpace(name)

SpecDB == Init /\ [][DBNext]_vars

----------------------------------------------------------------------------
(* Properties of the table layer, under SpecDB.                             *)

\* The key of rec in index i of tdef.
IndexKey(tdef, i, rec) ==
    encodeKey(<< >>, tdef.IndexPrefixes[i],
              [j \in DOMAIN tdef.Indexes[i] |->
                   rec.Vals[indexOf(rec.Cols, tdef.Indexes[i][j]) + 1]]).out

\* The entries of index i of UserTable that the open store's tree holds, among
\* those of the rows of the model.
IndexEntries(i) ==
    { key \in { IndexKey(UserTable, i, rec) : rec \in Rows } : KVGet(key).status = "found" }

C15_TableExists ==
    (tlast.op = "TableNew" /\ tlast.valid /\ tlast.stored) =>
        /\ ~tlast.panic
        /\ tlast.err = "table exists"
        /\ tlast.same

\* The prefixes of a table: its primary prefix and those of its indexes.
PrefixesOf(tdef) == { tdef.Prefix } \cup Range(tdef.IndexPrefixes)

----------------------------------------------------------------------------
(* Opening the store and loading the master page.                           *)

\* C17: an OpenWindows on an empty file succeeds and leaves the store with
\* tree root 0 and page count (flushed) 1.
C17_OpenEmpty ==
    [][ (FileSize(disk) = 0 /\ klast'.op = "open" /\ kopens' = kopens + 1)
        => (klast'.ok /\ db'.fp /\ db'.root = 0 /\ db'.flushed = 1) ]_vars

\* The first open has returned: the file was empty until then.
C17_Witness ==
    /\ klast.op = "open" /\ kopens = 1
    /\ db.fp /\ db.root = 0 /\ db.flushed = 1
    /\ FileSize(disk) >= BTREE_PAGE_SIZE

\* MasterLoad as a function of the file and of the KV struct, as an open that
\* maps the whole file hands them over (part_002:209-214): the file has its
\* master page and npages pages, db.mmap.file is its size, one chunk covers it.
MasterPage(sig, rt, used) ==
    PackBytes(Copy(Zeros(BTREE_PAGE_SIZE), 0, sig \o Bytes64(rt) \o Bytes64(used)))

\* Signatures: the padded DB_SIG, one with a byte of the padding set, zeros.
Sigs == { Copy(Zeros(16), 0, DB_SIG), Copy(Zeros(16), 0, DB_SIG \o << 1 >>), Zeros(16) }

MaxFilePages == 2
MaxMaster == 3

InitLoad ==
    /\ \E npages \in 1..MaxFilePages, sig \in Sigs, rt \in 0..MaxMaster, used \in 0..MaxMaster :
           /\ disk = [i \in 1..npages |-> IF i = 1 THEN MasterPage(sig, rt, used) ELSE ZeroPage]
           /\ db = [NewKV EXCEPT !.fp = TRUE,
                                 !.file = npages * BTREE_PAGE_SIZE,
                                 !.total = npages * BTREE_PAGE_SIZE,
                                 !.chunks = << npages * BTREE_PAGE_SIZE >>]
    /\ InitRest
    /\ fcall = NoCall
    /\ fret = NoCall

\* MasterLoad(db), once.
Load ==
    /\ db.fp /\ klast.op = "none"
    /\ \E r \in { MasterLoad([db |-> db, disk |-> disk]) } :
           /\ db' = r.m.db
           /\ disk' = r.m.disk
           /\ klast' = [op |-> "load", ok |-> r.err = "", prev |-> klast.op, at |-> 0,
                        made |-> << >>]
    /\ UNCHANGED << kpc, klog, kref, kcommitted, kopens, kops, treeVars, scanVars, tblVars, fnVars >>

SpecLoad == InitLoad /\ [][Load]_vars

\* The master page of the file does not validate: the signature differs, or
\* used is outside [1, file_bytes/4096], or root >= used.
BadMaster ==
    LET data == DiskBytes(disk, 0, 0)
    IN  \/ SubSeq(data, 1, 16) # Copy(Zeros(16), 0, DB_SIG)
        \/ LE64(data, 24) < 1
        \/ LE64(data, 24) > FileSize(disk) \div BTREE_PAGE_SIZE
        \/ LE64(data, 16) >= LE64(data, 24)

\* C18: MasterLoad on a file whose master page does not validate returns an
\* error, sets neither the tree root nor the page count and writes nothing.
C18_LoadRejects ==
    [][ (klast'.op = "load" /\ BadMaster)
        => (~klast'.ok /\ db'.root = db.root /\ db'.flushed = db.flushed /\ disk' = disk) ]_vars

\* Opening files of any size: the file holds a master page and is cut or
\* zero-extended to a size in FileSizes.
FileSizes == { 100, BTREE_PAGE_SIZE, BTREE_PAGE_SIZE + 100, 2 * BTREE_PAGE_SIZE }

\* The first size bytes of the pages of d.
CutFile(d, size) ==
    [i \in 1..((size + BTREE_PAGE_SIZE - 1) \div BTREE_PAGE_SIZE) |->
        IF i * BTREE_PAGE_SIZE <= size THEN d[i]
        ELSE PackBytes(SubSeq(UnpackBytes(d[i]), 1, size - (i - 1) * BTREE_PAGE_SIZE))]

InitOpen ==
    /\ \E size \in FileSizes, sig \in Sigs, rt \in 0..1, used \in 0..MaxMaster :
           disk = CutFile(<< MasterPage(sig, rt, used), ZeroPage >>, size)
    /\ db = NewKV
    /\ InitRest
    /\ fcall = NoCall
    /\ fret = NoCall

OpenNext == KVOpen \/ KVClose

SpecOpen == InitOpen /\ [][OpenNext]_vars

\* C19: an open of a file whose size is not a multiple of the page size fails
\* and leaves the size and the contents of the file as they were.
C19_OpenUnaligned ==
    [][ (FileSize(disk) % BTREE_PAGE_SIZE # 0 /\ klast'.op = "open" /\ kopens' = kopens + 1)
        => (~klast'.ok /\ disk' = disk) ]_vars

----------------------------------------------------------------------------
(* The harness called with keys and values of any length.                   *)

\* Inputs: the keys and values of SpecTree, the empty key, a key of 1001
\* bytes, a value of 3001 bytes.
ArgKeys == Keys \cup { << >>, Fill(BTREE_MAX_KEY_SIZE + 1, 97) }
ArgVals == Vals \cup { [len |-> BTREE_MAX_VAL_SIZE + 1, fill |-> 122] }

ArgNext ==
    \/ \E key \in ArgKeys, val \in ArgVals : Add(key, val)
    \/ \E key \in ArgKeys : Del(key)

SpecArgs == Init /\ [][ArgNext]_vars

\* The arguments of the call that made `last` are outside the limits.
BadArgs(l, val) ==
    \/ Len(l.key) = 0
    \/ Len(l.key) > BTREE_MAX_KEY_SIZE
    \/ l.op = "add" /\ val.len > BTREE_MAX_VAL_SIZE

\* C20: an Insert with an empty key, a key over 1000 bytes or a value over
\* 3000 bytes, and a Delete with an empty or over-long key, abort with no
\* page allocated or deallocated and tree.root as it was.
C20_BadArgsRejected ==
    [][ ( /\ ~panicked /\ nops' = nops + 1
          /\ BadArgs(last', IF last'.op = "add" THEN issued'[last'.key] ELSE ScanVal) )
        => (panicked' /\ root' = root /\ pages' = pages /\ handed' = << >>) ]_vars

\* An Insert with a value of 3001 bytes was rejected on a tree that is not empty.
C20_Witness ==
    /\ panicked /\ root # 0 /\ pages # NoMap
    /\ last.op = "add" /\ last.key \in Keys
    /\ issued[last.key].len > BTREE_MAX_VAL_SIZE

----------------------------------------------------------------------------
(* Functions of the program called on arguments drawn from small sets: the  *)
(* start draws the call, the one action applies the function.               *)

InitCall(calls) ==
    /\ db = NewKV
    /\ disk = << >>
    /\ InitRest
    /\ fcall \in calls
    /\ fret = NoCall

\* The call returns r.
Returns(r) ==
    /\ fret = NoCall
    /\ fret' = r
    /\ UNCHANGED << fcall, treeVars, kvVars, scanVars, tblVars >>

\* EncodeValues on one TYPE_INT64 value, for two values a and b.
Int64Value(v) == [Type |-> TYPE_INT64, I64 |-> v, Str |-> << >>]

I64s == { -2147483647, -16777216, -65536, -257, -256, -255, -2, -1,
          0, 1, 2, 255, 256, 257, 65536, 16777216, 2147483647 }

InitEncode == InitCall({ [fn |-> "EncodeValues", a |-> a, b |-> b] : a \in I64s, b \in I64s })

Encode ==
    /\ fcall.fn = "EncodeValues"
    /\ Returns([fn |-> "EncodeValues",
                a |-> EncodeValues(<< >>, << Int64Value(fcall.a) >>),
                b |-> EncodeValues(<< >>, << Int64Value(fcall.b) >>)])

SpecEncode == InitEncode /\ [][Encode]_vars

\* C21: the 8 bytes EncodeValues makes of an integer a are below those of b
\* in byte order exactly when a < b.
C21_Int64Order ==
    fret.fn = "EncodeValues" =>
        /\ ~fret.a.panic /\ ~fret.b.panic
        /\ Len(fret.a.out) = 8 /\ Len(fret.b.out) = 8
        /\ (Compare(fret.a.out, fret.b.out) < 0) <=> (fcall.a < fcall.b)

\* A negative and a non-negative integer were encoded and compare as they should.
C21_Witness ==
    /\ fret.fn = "EncodeValues"
    /\ fcall.a < 0 /\ fcall.b >= 0
    /\ Compare(fret.a.out, fret.b.out) < 0

----------------------------------------------------------------------------
(* Further properties of the tree, under SpecTree.                          *)

\* The keys of the harness's tree in leaf order, the empty sentinel key among them.
TreeKeys == IF root = 0 THEN << >> ELSE LeafKeys(CStore, root, StFuel(CStore))

\* C22: on a tree that holds one key besides the sentinel, Delete of that key
\* returns true and leaves tree.root = 0.
C22_DeleteLastKey ==
    [][ ( /\ ~panicked /\ nops' = nops + 1
          /\ last'.op = "del"
          /\ TreeKeys = << << >>, last'.key >> )
        => (~panicked' /\ last'.ret /\ root' = 0) ]_vars


\* The number of entries of the tree that carry the given key.
Occurrences(keys, key) == Cardinality({ i \in DOMAIN keys : keys[i] = key })

\* C23: an Insert of a key the tree already holds leaves the number of entries
\* as it was, and the key occurs exactly once afterwards.
C23_InsertOverwrites ==
    [][ ( /\ ~panicked /\ nops' = nops + 1
          /\ last'.op = "add"
          /\ last'.key \in StoredKeys
          /\ ~panicked' )
        => ( /\ Len(TreeKeys') = Len(TreeKeys)
             /\ Occurrences(TreeKeys', last'.key) = 1 ) ]_vars


----------------------------------------------------------------------------
(* One Insert or Delete on a given tree of the harness, of height 0, 1 or 2. *)

\* A leaf holding the given << key, val >> pairs, an internal node holding the
\* given << ptr, key >> links, each one page long.
RECURSIVE AppendPairs(_, _, _)
AppendPairs(node, pairs, i) ==
    IF i > Len(pairs) THEN node
    ELSE AppendPairs(NodeAppendKV(node, i - 1, 0, pairs[i][1], pairs[i][2]), pairs, i + 1)

RECURSIVE AppendLinks(_, _, _)
AppendLinks(node, links, i) ==
    IF i > Len(links) THEN node
    ELSE AppendLinks(NodeAppendKV(node, i - 1, links[i][1], links[i][2], << >>), links, i + 1)

LeafOf(pairs) ==
    AppendPairs(SetHeader(MakeNode(BTREE_PAGE_SIZE), BNODE_LEAF, Len(pairs)), pairs, 1)
NodeOf(links) ==
    AppendLinks(SetHeader(MakeNode(BTREE_PAGE_SIZE), BNODE_NODE, Len(links)), links, 1)

Sentinel == << << >>, << >> >>
KeyA == << 97 >>
KeyB == << 98 >>
KeyC == << 99 >>
KeyD == << 100 >>

\* Values of a given tree: one byte, or so long that a leaf of two of them
\* stays above a quarter of a page when it loses one.
GivenVals == { Fill(1, 120), Fill(1200, 121) }

EmptyTree == [root |-> 0, pages |-> NoMap]
OneLeafTree(pairs) == [root |-> 1, pages |-> 1 :> Pack(LeafOf(<< Sentinel >> \o pairs))]
TwoLeafTree(va, vc, vd) ==
    [root |-> 3,
     pages |-> (1 :> Pack(LeafOf(<< Sentinel, << KeyA, va >> >>)))
               @@ (2 :> Pack(LeafOf(<< << KeyC, vc >>, << KeyD, vd >> >>)))
               @@ (3 :> Pack(NodeOf(<< << 1, << >> >>, << 2, KeyC >> >>)))]

\* A root with a single link, as a merge below the root leaves it.
OneKidTree(vc, vd) ==
    [root |-> 2,
     pages |-> (1 :> Pack(LeafOf(<< Sentinel, << KeyC, vc >>, << KeyD, vd >> >>)))
               @@ (2 :> Pack(NodeOf(<< << 1, << >> >> >>)))]

GivenTrees ==
    { EmptyTree }
    \cup { OneKidTree(vc, vd) : vc \in GivenVals, vd \in GivenVals }
    \cup { OneLeafTree(<< << KeyA, v >> >>) : v \in GivenVals }
    \cup { OneLeafTree(<< << KeyA, v >>, << KeyC, v >> >>) : v \in GivenVals }
    \cup { TwoLeafTree(va, vc, vc) : va \in GivenVals, vc \in GivenVals }

CallKeys == { KeyA, KeyB, KeyC, KeyD }

TreeCalls ==
    { [fn |-> "Insert", tree |-> t, key |-> k, val |-> ValBytes(v)] :
        t \in GivenTrees, k \in CallKeys, v \in Vals }
    \cup { [fn |-> "Delete", tree |-> t, key |-> k, val |-> << >>] :
             t \in GivenTrees, k \in CallKeys }

InitTreeCall == InitCall(TreeCalls)

GivenStore == [CStore EXCEPT !.pages = fcall.tree.pages]

\* The call and what it left: [fn, st, root, ret].
TreeCall ==
    /\ fcall.fn \in { "Insert", "Delete" }
    /\ \E r \in { IF fcall.fn = "Insert"
                  THEN Insert(GivenStore, fcall.tree.root, fcall.key, fcall.val)
                  ELSE Delete(GivenStore, fcall.tree.root, fcall.key) } :
           Returns([fn |-> fcall.fn, st |-> r.st, root |-> r.root,
                    ret |-> IF fcall.fn = "Insert" THEN TRUE ELSE r.ret])

SpecTreeCall == InitTreeCall /\ [][TreeCall]_vars


\* The pages of the given tree that the call did not deallocate.
KeptPages == DOMAIN fcall.tree.pages \ Range(fret.st.freed)

C25_AllocatedIsReachable ==
    (fret.fn \in { "Insert", "Delete" } /\ ~fret.st.panic) =>
        DOMAIN fret.st.pages = Range(TreePtrs(fret.st, fret.root))

\* A Delete that removed a key from a leaf of a tree of height 2.
C25_Witness ==
    /\ fret.fn = "Delete" /\ fret.ret /\ ~fret.st.panic
    /\ Cardinality(DOMAIN fret.st.pages) = 3
    /\ Len(TreePtrs(fret.st, fret.root)) = 3


\* The keys the given tree holds.
GivenKeys ==
    IF fcall.tree.root = 0 THEN {}
    ELSE Range(LeafKeys(GivenStore, fcall.tree.root, StFuel(GivenStore)))

\* C28: a Delete of a key the tree does not hold returns false, leaves
\* tree.root and every page as they were and calls neither New nor Del.
C28_DeleteAbsent ==
    (fret.fn = "Delete" /\ fcall.key \notin GivenKeys) =>
        /\ ~fret.st.panic
        /\ ~fret.ret
        /\ fret.root = fcall.tree.root
        /\ fret.st.pages = fcall.tree.pages
        /\ fret.st.handed = << >>
        /\ fret.st.freed = << >>

\* A Delete of an absent key that went down to a leaf of a tree of height 2.
C28_Witness ==
    /\ fret.fn = "Delete" /\ fcall.key \notin GivenKeys
    /\ Cardinality(DOMAIN fcall.tree.pages) = 3
    /\ ~fret.ret


----------------------------------------------------------------------------
(* Page numbers of the KV store, under SpecKV.                              *)

CopyAt == Len(WritePagesW)

----------------------------------------------------------------------------
(* NodeSplit3 applied to the leaves TreeInsert can hand to it.              *)

\* The lengths of the values of the keys a, b, c, d of the leaf; the leaf is
\* built in a buffer of two pages, as TreeInsert does.
SplitLens == { 1, 1000, 3000 }
SplitInputs ==
    { s \in [1..4 -> SplitLens] : s[1] + s[2] + s[3] + s[4] <= 8000 }

SplitOld(s) ==
    AppendPairs(SetHeader(MakeNode(2 * BTREE_PAGE_SIZE), BNODE_LEAF, 4),
                << << KeyA, Fill(s[1], 120) >>, << KeyB, Fill(s[2], 121) >>,
                   << KeyC, Fill(s[3], 122) >>, << KeyD, Fill(s[4], 123) >> >>, 1)

InitSplit == InitCall({ [fn |-> "NodeSplit3", lens |-> s] : s \in SplitInputs })

PackAll(nodes) == [i \in DOMAIN nodes |-> Pack(nodes[i])]

\* ok = FALSE: the call panicked.
Split ==
    /\ fcall.fn = "NodeSplit3"
    /\ \E old \in { SplitOld(fcall.lens) } :
           Returns([fn |-> "NodeSplit3",
                    ok |-> NodeSplit3Ok(old),
                    out |-> IF NodeSplit3Ok(old) THEN PackAll(NodeSplit3(old)) ELSE << >>])

SpecSplit == InitSplit /\ [][Split]_vars

\* A node whose header, offsets and entries can all be read and that fits
\* in a page.
WellFormed(node) ==
    /\ Btype(node) \in { BNODE_NODE, BNODE_LEAF }
    /\ Nkeys(node) >= 1
    /\ NbytesOk(node) /\ Nbytes(node) <= BTREE_PAGE_SIZE
    /\ \A i \in 0..(Nkeys(node) - 1) : GetKeyOk(node, i) /\ GetValOk(node, i)

RECURSIVE AllEntries(_, _)
AllEntries(packed, i) ==
    IF i > Len(packed) THEN << >>
    ELSE NodeEntries(Unpack(packed[i])) \o AllEntries(packed, i + 1)

\* C29: NodeSplit3 returns a node that fits in a page as it is; a larger one
\* it returns as 2 or 3 well-formed nodes whose entries, put one after the
\* other, are the entries of the input in order.
C29_SplitKeepsEntries ==
    fret.fn = "NodeSplit3" =>
        /\ fret.ok
        /\ IF Nbytes(SplitOld(fcall.lens)) <= BTREE_PAGE_SIZE
           THEN /\ Len(fret.out) = 1
                /\ Unpack(fret.out[1]).Data = SplitOld(fcall.lens).Data
           ELSE /\ Len(fret.out) \in { 2, 3 }
                /\ \A i \in DOMAIN fret.out : WellFormed(Unpack(fret.out[i]))
                /\ AllEntries(fret.out, 1) = NodeEntries(SplitOld(fcall.lens))


----------------------------------------------------------------------------
(* NodeDelete applied to the root of a given tree of height 2.              *)

KeyE == << 101 >>
KeyF == << 102 >>

ThreeLeafTree(va, vc, ve) ==
    [root |-> 4,
     pages |-> (1 :> Pack(LeafOf(<< Sentinel, << KeyA, va >> >>)))
               @@ (2 :> Pack(LeafOf(<< << KeyC, vc >>, << KeyD, vc >> >>)))
               @@ (3 :> Pack(LeafOf(<< << KeyE, ve >>, << KeyF, ve >> >>)))
               @@ (4 :> Pack(NodeOf(<< << 1, << >> >>, << 2, KeyC >>, << 3, KeyE >> >>)))]

NodeDeleteCalls ==
    { [fn |-> "NodeDelete", tree |-> TwoLeafTree(va, vc, vd), key |-> k] :
        va \in GivenVals, vc \in GivenVals, vd \in GivenVals, k \in CallKeys }
    \cup { [fn |-> "NodeDelete", tree |-> ThreeLeafTree(va, vc, ve), key |-> k] :
             va \in GivenVals, vc \in GivenVals, ve \in GivenVals,
             k \in CallKeys \cup { KeyE, KeyF } }

InitNodeDelete == InitCall(NodeDeleteCalls)

\* The arguments of the call: the root node of the tree and the index
\* TreeDelete finds for the key.
GivenNode == Unpack(fcall.tree.pages[fcall.tree.root])
GivenIdx == NodeLookupLE(GivenNode, fcall.key)

\* The call and what it left: the store and the (packed) node returned.
NodeDeleteCall ==
    /\ fcall.fn = "NodeDelete"
    /\ \E r \in { NodeDelete(GivenStore, GivenNode, GivenIdx, fcall.key) } :
           Returns([fn |-> "NodeDelete", st |-> r.st, node |-> Pack(r.node)])

SpecNodeDelete == InitNodeDelete /\ [][NodeDeleteCall]_vars


\* What NodeDelete works on: the kid it descends into, the kid as TreeDelete
\* returns it, and the verdict of ShouldMerge.
GivenKid == GetPtr(GivenNode, GivenIdx)
GivenUpdated == TreeDelete(GivenStore, StGet(GivenStore, GivenKid), fcall.key).node
GivenMerge == ShouldMerge(StDel(GivenStore, GivenKid), GivenNode, GivenIdx, GivenUpdated)
MergeDue == GivenUpdated.len # 0 /\ GivenMerge.ok /\ GivenMerge.dir # 0

\* The index of the left one of the two merged links, the page of the
\* sibling, and the entries the merged node is to hold.
MergeAt == IF GivenMerge.dir < 0 THEN GivenIdx - 1 ELSE GivenIdx
MergeSibling == GetPtr(GivenNode, GivenIdx + GivenMerge.dir)
MergedEntries ==
    IF GivenMerge.dir < 0
    THEN NodeEntries(GivenMerge.sibling) \o NodeEntries(GivenUpdated)
    ELSE NodeEntries(GivenUpdated) \o NodeEntries(GivenMerge.sibling)

\* C30: when NodeDelete merges the updated kid with a sibling, the node it
\* returns has one key fewer than the old parent; its entry at the merge
\* position links to a newly allocated page that holds the left node's
\* entries followed by the right node's, under the first of these keys; the
\* pages of the kid and of the sibling are deallocated.
C30_MergeReplacesTwoKids ==
    (fret.fn = "NodeDelete" /\ MergeDue) =>
        /\ ~fret.st.panic
        /\ Nkeys(Unpack(fret.node)) = Nkeys(GivenNode) - 1
        /\ GetPtrOk(Unpack(fret.node), MergeAt)
        /\ GetKeyOk(Unpack(fret.node), MergeAt)
        /\ GetKey(Unpack(fret.node), MergeAt) = MergedEntries[1][1]
        /\ \E i \in DOMAIN fret.st.made :
               /\ fret.st.made[i].ptr = GetPtr(Unpack(fret.node), MergeAt)
               /\ fret.st.made[i].ptr \in DOMAIN fret.st.pages
               /\ NodeEntries(Unpack(fret.st.pages[fret.st.made[i].ptr])) = MergedEntries
        /\ { GivenKid, MergeSibling } \subseteq Range(fret.st.freed)


----------------------------------------------------------------------------
(* The new root of a Delete, under SpecTreeCall.                            *)

\* The root as TreeDelete returns it to BTree.Delete, and the store then.
UpdatedRoot == TreeDelete(GivenStore, StGet(GivenStore, fcall.tree.root), fcall.key)

\* C31: after a Delete that returned true, a root TreeDelete left as an
\* internal node with one link is replaced by the page that link names, the
\* old root is deallocated and no page is allocated for a root; any other
\* updated root is stored in a newly allocated page.
C31_RootPromotion ==
    (fret.fn = "Delete" /\ fret.ret /\ ~fret.st.panic) =>
        /\ fcall.tree.root \in Range(fret.st.freed)
        /\ IF Btype(UpdatedRoot.node) = BNODE_NODE /\ Nkeys(UpdatedRoot.node) = 1
           THEN /\ fret.root = GetPtr(UpdatedRoot.node, 0)
                /\ fret.st.made = UpdatedRoot.st.made
                /\ Btype(StGet(fret.st, fret.root)) = BNODE_LEAF
           ELSE /\ Len(fret.st.made) = Len(UpdatedRoot.st.made) + 1
                /\ fret.root = fret.st.made[Len(fret.st.made)].ptr
                /\ NodeEntries(StGet(fret.st, fret.root)) = NodeEntries(UpdatedRoot.node)

\* A Delete below a root with one link has returned true.
C31_Witness ==
    /\ fret.fn = "Delete" /\ fret.ret /\ ~fret.st.panic
    /\ Cardinality(DOMAIN fcall.tree.pages) = 2
    /\ Cardinality(DOMAIN fret.st.pages) = 1


----------------------------------------------------------------------------
(* NodeLookupLE applied to nodes with ascending keys.                       *)

\* The keys "a", "aa", "b", "c", "d" in ascending order; a node holds some of
\* them in this order, behind the empty key or not.
LookupKeys == << KeyA, << 97, 97 >>, KeyB, KeyC, KeyD >>
LookupTargets == Range(LookupKeys) \cup { << 96 >>, << 99, 0 >>, << 101 >> }

RECURSIVE Chosen(_, _)
Chosen(picks, i) ==
    IF i > Len(LookupKeys) THEN << >>
    ELSE (IF picks[i] THEN << LookupKeys[i] >> ELSE << >>) \o Chosen(picks, i + 1)

LookupNodes ==
    { Chosen(picks, 1) : picks \in [1..Len(LookupKeys) -> BOOLEAN] } \ { << >> }

InitLookup ==
    InitCall({ [fn |-> "NodeLookupLE", keys |-> front \o ks, key |-> t] :
                 front \in { << >>, << << >> >> }, ks \in LookupNodes, t \in LookupTargets })

KeysNode(keys) == LeafOf([i \in DOMAIN keys |-> << keys[i], << >> >>])

\* idx = -1: the call panicked.
Lookup ==
    /\ fcall.fn = "NodeLookupLE"
    /\ \E node \in { KeysNode(fcall.keys) } :
           Returns([fn |-> "NodeLookupLE",
                    idx |-> IF NodeLookupLEOk(node, fcall.key)
                            THEN NodeLookupLE(node, fcall.key) ELSE -1])

SpecLookup == InitLookup /\ [][Lookup]_vars

\* The indexes from 1 on whose key is at most the target.
AtMostTarget == { i \in 1..(Len(fcall.keys) - 1) : Compare(fcall.keys[i + 1], fcall.key) <= 0 }

----------------------------------------------------------------------------
(* The free list (freelist.go) as a unit: a FreeList whose callbacks work    *)
(* on a map from page numbers to nodes, get returning the stored node        *)
(* itself, new storing a                                                     *)
(* node under the next unused page number, use storing it under a given one. *)

FREE_LIST_HEADER == 4 + 8 + 8
FREE_LIST_CAP == (BTREE_PAGE_SIZE - FREE_LIST_HEADER) \div 8

\* uint64(v) as 8 little-endian bytes, for a v within 32 bits.
U64Bytes(v) ==
    IF v >= 0 THEN Bytes64(v)
    ELSE SubSeq(Bytes64(v), 1, 4) \o << 255, 255, 255, 255 >>

flnSetHeader(node, size, next) ==
    [node EXCEPT !.Data = Copy(Copy(@, 0, Bytes16(size)), 2, Bytes64(next))]
flnSetTotal(node, total) == [node EXCEPT !.Data = Copy(@, 10, U64Bytes(total))]

\* The loop of flPush over freed[:size]: flnSetPtr(node, i, ptrs[i]) writes
\* the 8 bytes of ptrs[i] from byte 10 + i * 8 on, for every i.
SetPtrs(node, ptrs) ==
    [node EXCEPT !.Data =
        [i \in DOMAIN @ |->
            IF i > 10 /\ i <= 10 + 8 * Len(ptrs)
            THEN Bytes64(ptrs[((i - 11) \div 8) + 1])[((i - 11) % 8) + 1]
            ELSE @[i]]]

\* A free list in the middle of Update: u = [head, pages, next, panic, freed,
\* reuse, popn, total, pushed]; pushed logs for every node flPush writes its
\* page, whether the page came from fl.new, and how many reuse pages were left.
FlPanic(u) == [u EXCEPT !.panic = TRUE]

\* The inner loop of phase 2 and the moves that follow it.
RECURSIVE TakeReuse(_, _, _)
TakeReuse(u, node, remain) ==
    IF remain > 0 /\ Len(u.reuse) * FREE_LIST_CAP < Len(u.freed) + remain
    THEN TakeReuse([u EXCEPT !.reuse = Append(@, flnPtr(node, remain - 1))], node, remain - 1)
    ELSE [u EXCEPT !.freed = @ \o [i \in 1..remain |-> flnPtr(node, i - 1)],
                   !.total = @ - flnSize(node),
                   !.head = flnNext(node)]

\* One round of the first loop of Update on the head node.
HarvestNode(u, node) ==
    IF u.popn >= flnSize(node)
    THEN [u EXCEPT !.freed = Append(@, u.head), !.popn = @ - flnSize(node),
                   !.total = @ - flnSize(node), !.head = flnNext(node)]
    ELSE TakeReuse([u EXCEPT !.freed = Append(@, u.head), !.popn = 0],
                   node, flnSize(node) - u.popn)

RECURSIVE Harvest(_)
Harvest(u) ==
    IF u.panic \/ u.head = 0 \/ ~(Len(u.reuse) * FREE_LIST_CAP < Len(u.freed)) THEN u
    ELSE IF u.head \notin DOMAIN u.pages THEN FlPanic(u)
    ELSE Harvest(HarvestNode(u, u.pages[u.head]))

\* One round of flPush: the node new is stored in a reused page or a new one.
PushNode(u, new, rest) ==
    IF Len(u.reuse) > 0
    THEN [u EXCEPT !.head = u.reuse[1], !.reuse = Tail(@), !.freed = rest,
                   !.pages = (u.reuse[1] :> new) @@ @,
                   !.pushed = Append(@, [ptr |-> u.reuse[1], fresh |-> FALSE,
                                         left |-> Len(u.reuse)])]
    ELSE [u EXCEPT !.head = u.next, !.next = @ + 1, !.freed = rest,
                   !.pages = (u.next :> new) @@ @,
                   !.pushed = Append(@, [ptr |-> u.next, fresh |-> TRUE,
                                         left |-> Len(u.reuse)])]

RECURSIVE flPush(_)
flPush(u) ==
    IF u.panic THEN u
    ELSE IF Len(u.freed) = 0 THEN (IF Len(u.reuse) = 0 THEN u ELSE FlPanic(u))
    ELSE flPush(PushNode(u,
                  SetPtrs(flnSetHeader(MakeNode(BTREE_PAGE_SIZE),
                                       Min(Len(u.freed), FREE_LIST_CAP), u.head),
                          SubSeq(u.freed, 1, Min(Len(u.freed), FREE_LIST_CAP))),
                  SubSeq(u.freed, Min(Len(u.freed), FREE_LIST_CAP) + 1, Len(u.freed))))

\* Update from the assertion after the first loop on: h the list after the
\* loop, p the list after flPush.
SetTotal(h, p) ==
    IF p.panic \/ p.head \notin DOMAIN p.pages THEN FlPanic(p)
    ELSE [p EXCEPT !.pages[p.head] =
            flnSetTotal(@, h.total + Len(h.freed))]

Prepend(h) ==
    IF h.panic THEN h
    ELSE IF ~(Len(h.reuse) * FREE_LIST_CAP >= Len(h.freed) \/ h.head = 0) THEN FlPanic(h)
    ELSE SetTotal(h, flPush(h))

\* FreeList.Update(popn, freed) on the list fl = [head, pages, next, panic].
FreeListUpdate(fl, popn, freed) ==
    LET u == [head |-> fl.head, pages |-> fl.pages, next |-> fl.next, panic |-> fl.panic,
              freed |-> freed, reuse |-> << >>, popn |-> popn, total |-> Total,
              pushed |-> << >>]
    IN  IF fl.panic THEN u
        ELSE IF ~(popn <= Total) THEN FlPanic(u)
        ELSE IF popn = 0 /\ Len(freed) = 0 THEN u
        ELSE Prepend(Harvest(u))

\* FreeList.Get(topn): [ok, ptr]; ok = FALSE when it panics.
RECURSIVE FlGetFrom(_, _, _, _)
FlGetFrom(fl, ptr, topn, fuel) ==
    IF fuel = 0 \/ ptr = 0 \/ ptr \notin DOMAIN fl.pages THEN [ok |-> FALSE, ptr |-> 0]
    ELSE IF flnSize(fl.pages[ptr]) <= topn
    THEN FlGetFrom(fl, flnNext(fl.pages[ptr]),
                   topn - flnSize(fl.pages[ptr]), fuel - 1)
    ELSE [ok |-> TRUE,
          ptr |-> flnPtr(fl.pages[ptr],
                         flnSize(fl.pages[ptr]) - topn - 1)]

FreeListGet(fl, topn) ==
    IF ~(0 <= topn /\ topn < Total) THEN [ok |-> FALSE, ptr |-> 0]
    ELSE FlGetFrom(fl, fl.head, topn, Cardinality(DOMAIN fl.pages))


\* Scripts of Update calls on a list that starts empty.
MaxUpdates == 2
LongFreed == [i \in 1..(FREE_LIST_CAP - 1) |-> 100 + i]
FreedLists == { << >>, << 11 >>, << 11, 12 >>, << 21, 22, 23 >>, LongFreed }
UpdateCalls == { [popn |-> 1, freed |-> << >>] }
               \cup { [popn |-> 0, freed |-> f] : f \in FreedLists }
UpdateScripts == UNION { [1..n -> UpdateCalls] : n \in 1..MaxUpdates }
EmptyList == [head |-> 0, pages |-> << >>, next |-> 5, panic |-> FALSE]

InitFree ==
    /\ fcall \in { [fn |-> "FreeList", calls |-> c] : c \in UpdateScripts }
    /\ fret = [fn |-> "FreeList", done |-> 0, fl |-> EmptyList, upd |-> << >>]
    /\ db = NewKV
    /\ disk = << >>
    /\ InitRest

\* The next call of the script; upd keeps what each Update did.
FreeUpdate ==
    /\ fret.done < Len(fcall.calls)
    /\ ~fret.fl.panic
    /\ \E u \in { FreeListUpdate(fret.fl, fcall.calls[fret.done + 1].popn,
                                 fcall.calls[fret.done + 1].freed) } :
          fret' = [fn |-> "FreeList", done |-> fret.done + 1,
                   fl |-> [head |-> u.head, pages |-> u.pages, next |-> u.next,
                           panic |-> u.panic],
                   upd |-> Append(fret.upd, [reuse |-> u.reuse, pushed |-> u.pushed,
                                             freed |-> u.freed, panic |-> u.panic])]
    /\ UNCHANGED << treeVars, kvVars, scanVars, tblVars, fcall >>

SpecFree == InitFree /\ [][FreeUpdate]_vars


\* The pointers stored in the nodes reachable from head, node by node.
RECURSIVE StoredPtrs(_, _, _)
StoredPtrs(fl, ptr, fuel) ==
    IF fuel = 0 \/ ptr = 0 \/ ptr \notin DOMAIN fl.pages THEN << >>
    ELSE [i \in 1..flnSize(fl.pages[ptr]) |-> flnPtr(fl.pages[ptr], i - 1)]
         \o StoredPtrs(fl, flnNext(fl.pages[ptr]), fuel - 1)

RECURSIVE StoredCount(_, _, _)
StoredCount(fl, ptr, fuel) ==
    IF fuel = 0 \/ ptr = 0 \/ ptr \notin DOMAIN fl.pages THEN 0
    ELSE flnSize(fl.pages[ptr])
         + StoredCount(fl, flnNext(fl.pages[ptr]), fuel - 1)

\* C33: after any sequence of Update calls that returned, Total() equals the
\* number of pointers stored in the list nodes reachable from head.
C33_TotalCountsPointers ==
    (fret.fn = "FreeList" /\ ~fret.fl.panic) =>
        Total = StoredCount(fret.fl, fret.fl.head, Cardinality(DOMAIN fret.fl.pages))


\* C34: every pointer an Update stored is returned by Get(i) for exactly one
\* i below the number of stored pointers.
C34_GetReturnsStored ==
    (fret.fn = "FreeList" /\ fret.done = 1 /\ ~fret.fl.panic) =>
        \A p \in Range(fcall.calls[1].freed) :
            Cardinality({ i \in 0..(Len(fcall.calls[1].freed) - 1) :
                            FreeListGet(fret.fl, i) = [ok |-> TRUE, ptr |-> p] }) = 1

\* C35: flPush writes each node into a reuse page while one is left and asks
\* for a new page only when none is, and its closing assertion never fails:
\* an Update with popn <= Total() does not panic.
C35_ReuseBeforeFresh ==
    (fret.fn = "FreeList" /\ fret.done > 0) =>
        /\ \A i \in DOMAIN fret.upd[fret.done].pushed :
              fret.upd[fret.done].pushed[i].fresh = (fret.upd[fret.done].pushed[i].left = 0)
        /\ fcall.calls[fret.done].popn <= Total => ~fret.fl.panic


----------------------------------------------------------------------------
(* BIter.Prev repeated on an iterator that SeekLE placed in a given tree of  *)
(* height 1, 2 or 3.                                                         *)

MaxPrev == 7

\* Height 3: a root over two internal nodes over three leaves.
DeepTree(v) ==
    [root |-> 6,
     pages |-> (1 :> Pack(LeafOf(<< Sentinel, << KeyA, v >> >>)))
               @@ (2 :> Pack(LeafOf(<< << KeyC, v >>, << KeyD, v >> >>)))
               @@ (3 :> Pack(LeafOf(<< << KeyE, v >>, << KeyF, v >> >>)))
               @@ (4 :> Pack(NodeOf(<< << 1, << >> >>, << 2, KeyC >> >>)))
               @@ (5 :> Pack(NodeOf(<< << 3, KeyE >> >>)))
               @@ (6 :> Pack(NodeOf(<< << 4, << >> >>, << 5, KeyE >> >>)))]

PrevTrees ==
    UNION { { OneLeafTree(<< << KeyA, v >>, << KeyC, v >> >>), TwoLeafTree(v, v, v),
              ThreeLeafTree(v, v, v), DeepTree(v) } : v \in GivenVals }
PrevKeys == { << >>, KeyA, KeyB, KeyC, KeyD, KeyE, KeyF }

InitPrev ==
    InitCall({ [fn |-> "Prev", tree |-> t, key |-> k] : t \in PrevTrees, k \in PrevKeys })

\* tree.SeekLE(key)
PrevSeek ==
    /\ fcall.fn = "Prev"
    /\ Returns([fn |-> "Prev", n |-> 0,
                iter |-> PackIter(SeekPath(GivenStore, fcall.tree.root, fcall.key, NewIter, 3))])

\* iter.Prev()
PrevStep ==
    /\ fret.fn = "Prev" /\ fret.n < MaxPrev /\ ~fret.iter.panic
    /\ fret' = [fn |-> "Prev", n |-> fret.n + 1,
                iter |-> PackIter(IterPrev(GivenStore, UnpackIter(fret.iter)))]
    /\ UNCHANGED << fcall, treeVars, kvVars, scanVars, tblVars >>

SpecPrev == InitPrev /\ [][PrevSeek \/ PrevStep]_vars

\* The iterator is at the dummy entry: index 0 at every level of the path.
AtDummy(it) == \A i \in DOMAIN it.pos : it.pos[i] = 0

PrevMoves(it, moved) ==
    /\ ~moved.panic
    /\ IF AtDummy(it) THEN moved = it
       ELSE Compare(IterKey(moved), IterKey(it)) < 0

\* C36: in a tree of any height every Prev() moves the iterator to an entry
\* with a strictly lower key, and a Prev() at the dummy entry leaves the
\* iterator where it is.
C36_PrevDescends ==
    [][(fret.fn = "Prev" /\ fret'.fn = "Prev" /\ fret'.n = fret.n + 1) =>
          PrevMoves(UnpackIter(fret.iter), UnpackIter(fret'.iter))]_vars


----------------------------------------------------------------------------
(* The mapping during a commit.                                              *)

\* The step of the running commit is ExtendMmapWindows(db, npages), and it
\* returns.
ExtendsMmap == db.fp /\ kpc \in DOMAIN FlushPagesW /\ FlushPagesW[kpc] = "extendMmap"
               /\ kpc' = kpc + 1
NeededPages == db.flushed + Cardinality(DOMAIN db.updates)

\* C37: after ExtendMmapWindows(db, npages) the mapping covers at least npages
\* pages; when it covered them before, no chunk is added; otherwise one chunk
\* is appended and the chunks before it stay as they were.
C37_EnsureMmap ==
    [][ExtendsMmap =>
          /\ db'.total >= NeededPages * BTREE_PAGE_SIZE
          /\ IF db.total >= NeededPages * BTREE_PAGE_SIZE
             THEN db'.chunks = db.chunks
             ELSE /\ Len(db'.chunks) = Len(db.chunks) + 1
                  /\ SubSeq(db'.chunks, 1, Len(db.chunks)) = db.chunks]_vars


\* The number of pages PageGetMapped finds in the chunks.
RECURSIVE MappedPages(_)
MappedPages(chunks) ==
    IF chunks = << >> THEN 0
    ELSE chunks[1] \div BTREE_PAGE_SIZE + MappedPages(Tail(chunks))

\* The page of the file PageGetMapped(db, ptr) returns: every chunk is a view
\* of the file from offset 0 on.
FilePageOf(chunks, ptr) == FindChunk(chunks, ptr, 1, 0).page

\* C38: for every page number p the mapping covers, PageGetMapped(p) returns
\* the bytes at file offset p * 4096, so two page numbers never resolve to
\* the same bytes of the file.
C38_MappedAtOffset ==
    db.fp => \A p \in 0..(MappedPages(db.chunks) - 1) : FilePageOf(db.chunks, p) = p


----------------------------------------------------------------------------
(* The encoding of one TYPE_BYTES key column, and the range key that stands  *)
(* for the keys without it.                                                  *)

MaxStr == 3
StrBytes == { 0, 1, 2, 254, 255 }
Strs == UNION { [1..n -> StrBytes] : n \in 0..MaxStr }

\* The loop of encodeKeyPartial over the missing columns, types[i] the type
\* of column keys[i].
RECURSIVE PadMissing(_, _, _)
PadMissing(out, types, i) ==
    IF i > Len(types) THEN out
    ELSE IF types[i] = TYPE_BYTES THEN Append(out, 255)
    ELSE IF types[i] = TYPE_INT64
    THEN PadMissing(out \o << 255, 255, 255, 255, 255, 255, 255, 255 >>, types, i + 1)
    ELSE PadMissing(out, types, i + 1)

\* encodeKeyPartial: [out, panic].
encodeKeyPartial(out, prefix, values, types, cmp) ==
    LET key == encodeKey(out, prefix, values)
    IN  IF key.panic \/ ~(cmp = CMP_GT \/ cmp = CMP_LE) THEN key
        ELSE [key EXCEPT !.out = PadMissing(@, types, Len(values) + 1)]

InitEscape ==
    InitCall({ [fn |-> "encodeKey", prefix |-> p, str |-> s, cmp |-> c] :
                 p \in { 100 }, s \in Strs, c \in { CMP_GT, CMP_LE } })

\* The value alone, the key of the row, and the range key without the column.
Escape ==
    /\ fcall.fn = "encodeKey"
    /\ Returns([fn |-> "encodeKey",
                val |-> EncodeValues(<< >>, << BytesValue(fcall.str) >>),
                full |-> encodeKey(<< >>, fcall.prefix, << BytesValue(fcall.str) >>),
                partial |-> encodeKeyPartial(<< >>, fcall.prefix, << >>,
                                             << TYPE_BYTES >>, fcall.cmp)])

SpecEscape == InitEscape /\ [][Escape]_vars

\* C39: an encoded TYPE_BYTES value has no 0x00 before its terminator and does
\* not begin with 0xff, so the range key padded with 0xff is strictly above
\* every full key with the same prefix.
C39_NoZeroNoFF ==
    (fret.fn = "encodeKey" /\ ~fret.val.panic) =>
        /\ \A i \in 1..(Len(fret.val.out) - 1) : fret.val.out[i] # 0
        /\ fret.val.out[1] # 255
        /\ Compare(fret.partial.out, fret.full.out) > 0


----------------------------------------------------------------------------
(* An open that fails on the master page.                                    *)

\* The first 32 bytes of the file d, the place of the master page.
MasterBytes(d) == SubSeq(UnpackBytes(d[1]), 1, Min(32, RunsLen(d[1])))

\* C40: when OpenWindows fails because the master page does not validate, the
\* file holds the bytes it held before: closing the file writes no master
\* page over its first 32 bytes.
C40_FailedOpenKeepsFile ==
    [][(klast'.op = "open" /\ kopens' = kopens + 1 /\ ~klast'.ok) =>
          /\ MasterBytes(disk') = MasterBytes(disk)
          /\ disk' = disk]_vars
====
